---- MODULE Spec2Model ----
(***************************************************************************)
(* A model of the benchmark engine of noir-bench:                          *)
(*   - the workflow orchestrator (src/engine/workflow.rs),                 *)
(*   - the supervised subprocess runner (src/backend/barretenberg.rs),     *)
(*   - the regression comparator (src/compare_cmd.rs) and                  *)
(*   - the regression report (src/report/regression.rs).                   *)
(* Each part has its own specification over the shared variables; the      *)
(* variables of the other parts stay at their initial values.              *)
(***************************************************************************)
EXTENDS Integers, Sequences, FiniteSets, TLC

\* ------------------------------------------------------------------ bounds

\* largest warmup count tried
MaxWarmup == 1
\* largest measured-iteration count tried
MaxIterations == 2
\* largest number of sleeps of the poll loop followed
MaxSleeps == 12
\* metric values compared: -MaxValue..MaxValue
MaxValue == 12
\* largest number of circuits added to a report
MaxCircuits == 2
\* largest number of metrics of a circuit added to a report
MaxMetrics == 1
\* largest number of records in a JSONL file
MaxRecords == 2
\* largest number of JsonlWriter::append calls
MaxAppends == 3
\* largest length of the sample sequences tried exhaustively
MaxSamples == 4
\* largest length of the ramps of samples tried
MaxLong == 21

\* Option<T>: None is the empty sequence, Some(x) the one-element sequence.
None == <<>>
Some(x) == <<x>>

\* ------------------------------------------------------------- variables

VARIABLES
    \* workflow orchestrator
    pc,                 \* position in prove_with_iterations / full_benchmark
    args,               \* [entry, warmup, iterations] of the running call
    i,                  \* loop index of `for i in 0..total_runs`
    witness_times,      \* Vec<f64> of measured witness times
    prove_times,        \* Vec<f64> of measured prove times
    witness_result,     \* the WitnessArtifact of the current iteration, or None
    last_prove_output,  \* Option<ProveOutput>
    witness_file,       \* whether the transient witness file exists on disk
    record,             \* the BenchRecord under construction
    status,             \* the auxiliary results of full_benchmark
    capabilities,       \* the Capabilities the backend declared, or None
    calls,              \* the collaborator calls made so far, in order (for
                        \* verify with the proof and vk paths passed)
    ret,                \* what the workflow returned: "none", "err" or "ok"
    \* subprocess runner (BarretenbergBackend::run_with_timeout)
    rpc,                \* position in run_with_timeout
    timeout_ms,         \* the `timeout` argument, in milliseconds
    elapsed_ms,         \* wall-clock time since `start`
    child,              \* the child process: state and exit code
    sleeps,             \* number of 50 ms sleeps taken so far
    rret,               \* what run_with_timeout returned
    \* regression classification (compute_delta_status, compare_values)
    delta_in,           \* the arguments of the last classification, or None
    delta_out,          \* its results, or None
    \* regression report (RegressionReport)
    report,             \* the RegressionReport: circuits and summary
    last_op,            \* the last method called on it: "new", "add_circuit", "finalize"
    finalized,          \* finalize has been called on it
    \* comparator (compare_cmd)
    cmp_in,             \* the inputs of the comparison run, or None
    cmp_out,            \* its CompareResult (or error) and RegressionReport, or None
    \* JSONL storage (JsonlWriter)
    fs,                 \* the parent directory and the file at the writers' path
    sop,                \* the last JsonlWriter call, for append with its record
                        \* and the file system it found
    sret,               \* what that call returned
    appended,           \* the records of the append calls that returned Ok, in order
    torn_write,         \* some append failed in the middle of writing its line
    n_appends,          \* number of append calls made
    \* timing statistics (TimingStat::from_samples)
    ts_in,              \* the samples of the call, or None
    ts_out,             \* the TimingStat returned, or None
    \* gate information (GateInfo::from_gates, BarretenbergBackend::gate_info)
    gi_in,              \* the call made and its input, or None
    gi_out,             \* how the call ended: a panic or the value returned
    \* benchmark commands (ci_cmd::run, bench_cmd::run, bench_cmd::run_all, main)
    cmd,                \* the command running and its inputs
    cpc,                \* position in the command
    todo,               \* the circuits still to benchmark, in order
    circuit_results,    \* ci: the Vec<CiCircuitResult> pushed so far
    out_file,           \* the records written to the output JSONL file
    comparison,         \* ci: Option<CompareResult>
    cret,               \* what the command function returned, or None
    exit_status,        \* the exit code of the process, or None
    workflow_failed,    \* some full_benchmark call of the command returned Err
    \* Barretenberg backend files (BarretenbergBackend::prove, verify)
    bk_pc,              \* position: "idle", "bb" (bb prove to run), "bb_done", "verified"
    bk_proves,          \* number of prove calls made
    out_dir,            \* the TempDir `out_dir` of the running prove call, or None
    bb_run,             \* how `bb prove` of the running call went, or None
    disk,               \* the files that exist, as [dir, file]
    prove_out,          \* what the last prove call returned, or None
    verify_in           \* the paths passed to verify and whether the files
                        \* were there, or None

wfvars == <<pc, args, i, witness_times, prove_times, witness_result,
            last_prove_output, witness_file, record, status, capabilities,
            calls, ret>>

rvars == <<rpc, timeout_ms, elapsed_ms, child, sleeps, rret>>

dvars == <<delta_in, delta_out>>

repvars == <<report, last_op, finalized>>

cmpvars == <<cmp_in, cmp_out>>

svars == <<fs, sop, sret, appended, torn_write, n_appends>>

tsvars == <<ts_in, ts_out>>

gvars == <<gi_in, gi_out>>

civars == <<cmd, cpc, todo, circuit_results, out_file, comparison, cret,
            exit_status, workflow_failed>>

bkvars == <<bk_pc, bk_proves, out_dir, bb_run, disk, prove_out, verify_in>>

vars == <<wfvars, rvars, dvars, repvars, cmpvars, svars, tsvars, gvars, civars,
          bkvars>>

\* ===================================================================
\* Workflow orchestrator: prove_with_iterations and full_benchmark
\* ===================================================================

\* The ProveOutput values a Backend.prove call may return. Sizes and paths
\* differ, so that the iteration a value came from can be told.
ProveOutputs ==
    { [prove_time_ms |-> 1, proof_size_bytes |-> Some(10),
       proving_key_size_bytes |-> Some(20), verification_key_size_bytes |-> Some(30),
       proof_path |-> Some("proofA"), vk_path |-> Some("vkA")],
      [prove_time_ms |-> 2, proof_size_bytes |-> Some(11),
       proving_key_size_bytes |-> None, verification_key_size_bytes |-> Some(31),
       proof_path |-> Some("proofB"), vk_path |-> None],
      [prove_time_ms |-> 3, proof_size_bytes |-> None, proving_key_size_bytes |-> None,
       verification_key_size_bytes |-> None, proof_path |-> None, vk_path |-> None] }

\* The witness-generation times (ms) a Toolchain.gen_witness call may report.
WitnessTimes == {25, 26}

\* The capability sets a Backend may declare (the flags the workflow reads).
CapabilitySets == [has_gate_count : BOOLEAN, can_verify : BOOLEAN]

\* The GateInfo values a Backend.gate_info call may return.
GateInfos ==
    { [backend_gates |-> 17, acir_opcodes |-> Some(5), subgroup_size |-> Some(32)],
      [backend_gates |-> 0, acir_opcodes |-> None, subgroup_size |-> None] }

\* The VerifyOutput values a Backend.verify call may return.
VerifyOutputs == [verify_time_ms : {7}, success : BOOLEAN]

Entries == {"prove_with_iterations", "full_benchmark"}

EmptyRecord ==
    [warmup_iterations |-> 0, measured_iterations |-> 0,
     witness_stats |-> None, prove_stats |-> None, verify_stats |-> None,
     proof_size_bytes |-> None, proving_key_size_bytes |-> None,
     verification_key_size_bytes |-> None,
     total_gates |-> None, acir_opcodes |-> None, subgroup_size |-> None]

EmptyStatus ==
    [gate_info_status |-> "Unset", verify_status |-> "Unset", verify_success |-> FALSE,
     verify_time_ms |-> None, proof_path |-> None, vk_path |-> None,
     constraints |-> None]

RECURSIVE SumSeq(_)
SumSeq(s) == IF s = <<>> THEN 0 ELSE s[1] + SumSeq(Tail(s))

SeqMin(s) == CHOOSE x \in {s[k] : k \in 1..Len(s)} : \A j \in 1..Len(s) : x <= s[j]
SeqMax(s) == CHOOSE x \in {s[k] : k \in 1..Len(s)} : \A j \in 1..Len(s) : x >= s[j]

\* x put into the sorted sequence s, after the elements that are not greater.
RECURSIVE insert_sorted(_, _)
insert_sorted(s, x) ==
    IF s = <<>> THEN <<x>>
    ELSE IF x < Head(s) THEN <<x>> \o s
    ELSE <<Head(s)>> \o insert_sorted(Tail(s), x)

\* `sorted.sort_by(|a, b| a.partial_cmp(b)..)`: a stable sort, ascending.
RECURSIVE sort_samples(_)
sort_samples(s) ==
    IF s = <<>> THEN <<>>
    ELSE insert_sorted(sort_samples(SubSeq(s, 1, Len(s) - 1)), s[Len(s)])

\* `samples.iter().map(|x| (x - mean_ms).powi(2)).sum()` as a multiple of
\* 1/n^2: with mean = sum/n, (x - mean)^2 = (n*x - sum)^2 / n^2.
RECURSIVE sum_sq_dev(_, _, _)
sum_sq_dev(s, sum, n) ==
    IF s = <<>> THEN 0
    ELSE (n * Head(s) - sum) * (n * Head(s) - sum) + sum_sq_dev(Tail(s), sum, n)

\* `(0.95 * n as f64).ceil() as usize`
ceil95(n) == (95 * n + 99) \div 100

p95_index_last(n) == n - 1

\* `.saturating_sub(1).min(n - 1)` of ceil95(n): the 0-based index of p95
p95_index(n) ==
    LET sub == IF ceil95(n) >= 1 THEN ceil95(n) - 1 ELSE 0
    IN  IF sub < n - 1 THEN sub ELSE n - 1

\* `variance = sum of squares / n as f64`, the number under the square root
variance_of(sum_sq, n) == [num |-> sum_sq, den |-> n * n * n]

EmptyTimingStat_zeroed ==
    [iterations |-> 0, mean_ms |-> [num |-> 0, den |-> 1],
     median_ms |-> Some([num |-> 0, den |-> 1]),
     stddev_ms |-> Some([sqrt_of |-> [num |-> 0, den |-> 1]]),
     min_ms |-> 0, max_ms |-> 0, p95_ms |-> Some(0)]

\* The TimingStat returned for no samples (0.0 is the quotient 0/1).
EmptyTimingStat ==
    [iterations |-> 0, mean_ms |-> [num |-> 0, den |-> 1], median_ms |-> None,
     stddev_ms |-> None, min_ms |-> 0, max_ms |-> 0, p95_ms |-> None]

\* TimingStat::from_samples. Quotients are kept exact, as numerator and
\* denominator; stddev_ms is kept as the number its square root is taken of.
TimingStat_from_samples(samples) ==
    LET n == Len(samples)
        sum == SumSeq(samples)
        sorted == sort_samples(samples)
    IN  IF n = 0 THEN EmptyTimingStat
        ELSE [iterations |-> n,
              mean_ms |-> [num |-> sum, den |-> n],
              median_ms |-> IF n % 2 = 0
                            THEN Some([num |-> sorted[n \div 2] + sorted[n \div 2 + 1],
                                       den |-> 2])
                            ELSE Some([num |-> sorted[n \div 2 + 1], den |-> 1]),
              stddev_ms |-> Some([sqrt_of |-> variance_of(sum_sq_dev(samples, sum, n), n)]),
              min_ms |-> SeqMin(samples),
              max_ms |-> SeqMax(samples),
              p95_ms |-> Some(sorted[p95_index(n) + 1])]

\* The sample sequences from_samples is called with: every sequence of up to
\* MaxSamples of the SampleValues, and longer ramps, ascending and
\* descending, of up to MaxLong samples.
SampleValues == {100, 105, 120}
ShortSamples == UNION {[1..k -> SampleValues] : k \in 0..MaxSamples}
LongSamples ==
    UNION {{[k \in 1..n |-> k], [k \in 1..n |-> n + 1 - k]} : n \in (MaxSamples + 1)..MaxLong}

InitTiming ==
    /\ ts_in = None
    /\ ts_out = None

\* TimingStat::from_samples(&samples)
FromSamples(samples) ==
    /\ ts_in' = Some(samples)
    /\ ts_out' = Some(TimingStat_from_samples(samples))


iterations_rejected_mut(iterations) == iterations < 0
\* `if iterations == 0 { return Err(..) }`
iterations_rejected(iterations) == iterations = 0

\* The `?` after gen_witness and prove: an Err result returns from the
\* workflow at once.
returns_early_mut(ok) == FALSE
returns_early(ok) == ~ok

\* `let total_runs = warmup + iterations;`
\* A loop bound that forgets the warmup iterations.
total_runs_measured_only(warmup, iterations) == iterations

total_runs(warmup, iterations) == warmup + iterations

keep_first(previous, prove_output) ==
    IF previous = None THEN Some(prove_output) ELSE previous

\* `last_prove_output = Some(prove_output);` at the end of each iteration
keep_last(previous, prove_output) == Some(prove_output)

is_warmup_mut(idx, warmup) == idx <= warmup
\* `let is_warmup = i < warmup;`
is_warmup(idx, warmup) == idx < warmup

InitWorkflow ==
    /\ pc = "idle"
    /\ args = [entry |-> "none", warmup |-> 0, iterations |-> 0]
    /\ i = 0
    /\ witness_times = <<>>
    /\ prove_times = <<>>
    /\ witness_result = None
    /\ last_prove_output = None
    /\ witness_file = FALSE
    /\ record = EmptyRecord
    /\ status = EmptyStatus
    /\ capabilities = None
    /\ calls = <<>>
    /\ ret = "none"

\* The caller invokes prove_with_iterations or full_benchmark. The function
\* validates `iterations`, resolves the version metadata (Toolchain.version)
\* and builds the empty record with its RunConfig.
Call(entry, warmup, iterations) ==
    /\ pc = "idle"
    /\ args' = [entry |-> entry, warmup |-> warmup, iterations |-> iterations]
    /\ IF iterations_rejected(iterations)
       THEN /\ pc' = "done"
            /\ ret' = "err"
            /\ UNCHANGED <<record, calls>>
       ELSE /\ pc' = "loop"
            /\ ret' = "none"
            /\ calls' = Append(calls, [op |-> "version", iter |-> -1, arg |-> None,
                                       out |-> None])
            /\ record' = [EmptyRecord EXCEPT !.warmup_iterations = warmup,
                                             !.measured_iterations = iterations]
    /\ UNCHANGED <<i, witness_times, prove_times, witness_result,
                   last_prove_output, witness_file, status, capabilities>>

\* `toolchain.gen_witness(..)?` of iteration i: the toolchain writes the
\* witness file and reports its time, or fails and the `?` returns the error.
GenWitness(ok, ms) ==
    /\ pc = "loop"
    /\ i < total_runs(args.warmup, args.iterations)
    /\ calls' = Append(calls, [op |-> "gen_witness", iter |-> i, arg |-> None,
                               out |-> IF ok THEN Some(ms) ELSE None])
    /\ IF returns_early(ok)
       THEN /\ pc' = "done"
            /\ ret' = "err"
            /\ UNCHANGED <<witness_result, witness_file>>
       ELSE /\ witness_result' = Some([witness_gen_time_ms |-> ms])
            /\ witness_file' = TRUE
            /\ pc' = "prove"
            /\ UNCHANGED ret
    /\ UNCHANGED <<args, i, witness_times, prove_times, last_prove_output,
                   record, status, capabilities>>

\* `backend.prove(..)?` of iteration i, then the rest of the loop body: the
\* samples are pushed unless the iteration is a warmup, the witness file is
\* removed and the output is kept as last_prove_output.
Prove(ok, output) ==
    /\ pc = "prove"
    /\ calls' = Append(calls, [op |-> "prove", iter |-> i, arg |-> None,
                               out |-> IF ok THEN Some(output) ELSE None])
    /\ IF ~returns_early(ok)
       THEN /\ IF is_warmup(i, args.warmup)
               THEN UNCHANGED <<witness_times, prove_times>>
               ELSE /\ witness_times' =
                          Append(witness_times, witness_result[1].witness_gen_time_ms)
                    /\ prove_times' = Append(prove_times, output.prove_time_ms)
            /\ witness_file' = FALSE
            /\ witness_result' = None
            /\ last_prove_output' = keep_last(last_prove_output, output)
            /\ i' = i + 1
            /\ pc' = "loop"
            /\ UNCHANGED ret
       ELSE /\ pc' = "done"
            /\ ret' = "err"
            /\ UNCHANGED <<i, witness_times, prove_times, witness_result,
                           last_prove_output, witness_file>>
    /\ UNCHANGED <<args, record, status, capabilities>>

\* Lines 232-233 / 389-390: the timing statistics of the measured samples.
WithStats(rec, wt, pt) ==
    [rec EXCEPT !.witness_stats = Some(TimingStat_from_samples(wt)),
                !.prove_stats = Some(TimingStat_from_samples(pt))]

\* `if let Some(output) = last_prove_output { record.proof_size_bytes = ...}`
WithSizes(rec, lpo) ==
    IF lpo = None THEN rec
    ELSE [rec EXCEPT !.proof_size_bytes = lpo[1].proof_size_bytes,
                     !.proving_key_size_bytes = lpo[1].proving_key_size_bytes,
                     !.verification_key_size_bytes = lpo[1].verification_key_size_bytes]

WithGates_zeroed(rec, gi) ==
    IF gi = None THEN [rec EXCEPT !.total_gates = Some(0)]
    ELSE [rec EXCEPT !.total_gates = Some(gi[1].backend_gates),
                     !.acir_opcodes = gi[1].acir_opcodes,
                     !.subgroup_size = gi[1].subgroup_size]

\* `if let Some(ref gi) = gate_info { record.total_gates = ... }`
WithGates(rec, gi) ==
    IF gi = None THEN rec
    ELSE [rec EXCEPT !.total_gates = Some(gi[1].backend_gates),
                     !.acir_opcodes = gi[1].acir_opcodes,
                     !.subgroup_size = gi[1].subgroup_size]

\* The (proof_path, vk_path) pair taken from last_prove_output.
PathsOf(lpo) ==
    IF lpo = None THEN [proof_path |-> None, vk_path |-> None]
    ELSE [proof_path |-> lpo[1].proof_path, vk_path |-> lpo[1].vk_path]

VerifyDecision_paths_only(caps, paths) ==
    IF paths.proof_path # None /\ paths.vk_path # None THEN "call"
    ELSE "SkippedMissingArtifacts"

\* The verify decision of lines 437-456, before any call: "call" when
\* Backend.verify is to be called, else the skip status.
VerifyDecision(caps, paths) ==
    IF ~caps.can_verify THEN "SkippedUnsupported"
    ELSE IF paths.proof_path # None /\ paths.vk_path # None THEN "call"
    ELSE "SkippedMissingArtifacts"

\* The loop of prove_with_iterations has ended: statistics, sizes, Ok(record).
FinishProveWithIterations ==
    /\ pc = "loop"
    /\ args.entry = "prove_with_iterations"
    /\ i >= total_runs(args.warmup, args.iterations)
    /\ record' = WithSizes(WithStats(record, witness_times, prove_times),
                           last_prove_output)
    /\ pc' = "done"
    /\ ret' = "ok"
    /\ UNCHANGED <<args, i, witness_times, prove_times, witness_result,
                   last_prove_output, witness_file, status, capabilities, calls>>

\* Lines 404-456 of full_benchmark from the outcome of the gate step (gi is
\* the GateInfo or None, gstatus the GateInfoStatus) up to the verify call.
AfterGateStep(caps, gi, gstatus) ==
    LET paths == PathsOf(last_prove_output)
        decision == VerifyDecision(caps, paths)
    IN  /\ record' = WithSizes(WithGates(WithStats(record, witness_times, prove_times),
                                         gi),
                               last_prove_output)
        /\ status' = [status EXCEPT
                        !.gate_info_status = gstatus,
                        !.constraints = IF gi = None THEN None ELSE Some(gi[1].backend_gates),
                        !.proof_path = paths.proof_path,
                        !.vk_path = paths.vk_path,
                        !.verify_status = IF decision = "call" THEN "Unset" ELSE decision]
        /\ IF decision = "call"
           THEN pc' = "verify" /\ UNCHANGED ret
           ELSE pc' = "done" /\ ret' = "ok"

\* The loop of full_benchmark has ended: statistics, backend.capabilities(),
\* and, when the backend has no gate count, the rest up to the verify call.
LoopExitFull(caps) ==
    /\ pc = "loop"
    /\ args.entry = "full_benchmark"
    /\ i >= total_runs(args.warmup, args.iterations)
    /\ capabilities' = Some(caps)
    /\ IF caps.has_gate_count
       THEN /\ pc' = "gate_info"
            /\ record' = WithStats(record, witness_times, prove_times)
            /\ UNCHANGED <<status, ret>>
       ELSE AfterGateStep(caps, None, "SkippedUnsupported")
    /\ UNCHANGED <<args, i, witness_times, prove_times, witness_result,
                   last_prove_output, witness_file, calls>>

\* `backend.gate_info(..)`: Ok(info) or Err, never propagated.
GateInfoCall(ok, info) ==
    /\ pc = "gate_info"
    /\ calls' = Append(calls, [op |-> "gate_info", iter |-> -1, arg |-> None,
                               out |-> IF ok THEN Some(info) ELSE None])
    /\ IF ok
       THEN AfterGateStep(capabilities[1], Some(info), "Ok")
       ELSE AfterGateStep(capabilities[1], None, "Failed")
    /\ UNCHANGED <<args, i, witness_times, prove_times, witness_result,
                   last_prove_output, witness_file, capabilities>>

\* `backend.verify(proof, vk)`: its outcome is folded into the result.
VerifyCall(ok, output) ==
    /\ pc = "verify"
    /\ calls' = Append(calls, [op |-> "verify", iter |-> -1,
                               arg |-> Some([proof |-> status.proof_path[1],
                                             vk |-> status.vk_path[1]]),
                               out |-> IF ok THEN Some(output) ELSE None])
    /\ IF ok
       THEN /\ record' = [record EXCEPT !.verify_stats =
                             Some(TimingStat_from_samples(<<output.verify_time_ms>>))]
            /\ status' = [status EXCEPT
                            !.verify_success = output.success,
                            !.verify_time_ms = Some(output.verify_time_ms),
                            !.verify_status = IF output.success THEN "Ok" ELSE "Failed"]
       ELSE /\ status' = [status EXCEPT !.verify_status = "Failed"]
            /\ UNCHANGED record
    /\ pc' = "done"
    /\ ret' = "ok"
    /\ UNCHANGED <<args, i, witness_times, prove_times, witness_result,
                   last_prove_output, witness_file, capabilities>>

NextWorkflow ==
    \/ \E e \in Entries, w \in 0..MaxWarmup, m \in 0..MaxIterations :
          Call(e, w, m) /\ UNCHANGED <<rvars, dvars, repvars, cmpvars, svars, tsvars, gvars, civars, bkvars>>
    \/ \E ok \in BOOLEAN, ms \in WitnessTimes : GenWitness(ok, ms) /\ UNCHANGED <<rvars, dvars, repvars, cmpvars, svars, tsvars, gvars, civars, bkvars>>
    \/ \E ok \in BOOLEAN, o \in ProveOutputs : Prove(ok, o) /\ UNCHANGED <<rvars, dvars, repvars, cmpvars, svars, tsvars, gvars, civars, bkvars>>
    \/ FinishProveWithIterations /\ UNCHANGED <<rvars, dvars, repvars, cmpvars, svars, tsvars, gvars, civars, bkvars>>
    \/ \E c \in CapabilitySets : LoopExitFull(c) /\ UNCHANGED <<rvars, dvars, repvars, cmpvars, svars, tsvars, gvars, civars, bkvars>>
    \/ \E ok \in BOOLEAN, g \in GateInfos : GateInfoCall(ok, g) /\ UNCHANGED <<rvars, dvars, repvars, cmpvars, svars, tsvars, gvars, civars, bkvars>>
    \/ \E ok \in BOOLEAN, o \in VerifyOutputs : VerifyCall(ok, o) /\ UNCHANGED <<rvars, dvars, repvars, cmpvars, svars, tsvars, gvars, civars, bkvars>>


\* ===================================================================
\* Subprocess runner: BarretenbergBackend::run_with_timeout
\* ===================================================================

\* `std::thread::sleep(Duration::from_millis(50))`
PollIntervalMs == 50

\* The timeouts tried: none, sub-second ones, one second and above.
Timeouts == {0, 50, 500, 1000, 1050}

\* How long one sleep of the poll loop may take: the interval, or the
\* interval and a scheduling delay of the same length.
SleepDurations == {PollIntervalMs, 2 * PollIntervalMs}

\* Duration::as_secs: the whole seconds of a duration.
as_secs(ms) == ms \div 1000

timed_out_always_armed(timeout, elapsed) == elapsed >= timeout

\* `if timeout.as_secs() > 0 && start.elapsed() >= timeout`
timed_out(timeout, elapsed) == as_secs(timeout) > 0 /\ elapsed >= timeout

InitRunner ==
    /\ rpc = "idle"
    /\ timeout_ms = 0
    /\ elapsed_ms = 0
    /\ child = [state |-> "none", code |-> 0]
    /\ sleeps = 0
    /\ rret = [kind |-> "none", code |-> 0, elapsed_ms |-> 0]

\* `let start = Instant::now(); let mut child = cmd.spawn().map_err(..)?;`
Spawn(timeout, ok) ==
    /\ rpc = "idle"
    /\ timeout_ms' = timeout
    /\ elapsed_ms' = 0
    /\ IF ok
       THEN /\ child' = [state |-> "running", code |-> 0]
            /\ rpc' = "poll"
            /\ UNCHANGED rret
       ELSE /\ rpc' = "done"
            /\ rret' = [kind |-> "SpawnError", code |-> 0, elapsed_ms |-> 0]
            /\ UNCHANGED child
    /\ UNCHANGED sleeps

\* The child process ends by itself with an exit code (its own step).
ChildExits(code) ==
    /\ child.state = "running"
    /\ rpc \in {"poll", "sleep"}
    /\ child' = [state |-> "exited", code |-> code]
    /\ UNCHANGED <<rpc, timeout_ms, elapsed_ms, sleeps, rret>>

\* A loop body that tests the deadline before the exit status.
poll_branch_timeout_first(wait_ok, child_state, timeout, elapsed) ==
    IF timed_out(timeout, elapsed) THEN "Timeout"
    ELSE IF ~wait_ok THEN "WaitError"
    ELSE IF child_state = "exited" THEN "Ok"
    ELSE "Sleep"

\* The branch one pass of the loop body takes: the `?` of try_wait, then
\* `if let Some(status)`, then the timeout test, else the sleep.
poll_branch(wait_ok, child_state, timeout, elapsed) ==
    IF ~wait_ok THEN "WaitError"
    ELSE IF child_state = "exited" THEN "Ok"
    ELSE IF timed_out(timeout, elapsed) THEN "Timeout"
    ELSE "Sleep"

\* One pass of the loop body up to the sleep: try_wait (which may fail),
\* the exit check, then the timeout check with kill and wait.
Poll(wait_ok) ==
    /\ rpc = "poll"
    /\ LET branch == poll_branch(wait_ok, child.state, timeout_ms, elapsed_ms)
       IN  IF branch = "WaitError"
           THEN /\ rpc' = "done"
                /\ rret' = [kind |-> "WaitError", code |-> 0, elapsed_ms |-> 0]
                /\ UNCHANGED child
           ELSE IF branch = "Ok"
           THEN /\ rpc' = "done"
                /\ rret' = [kind |-> "Ok", code |-> child.code, elapsed_ms |-> elapsed_ms]
                /\ child' = [child EXCEPT !.state = "reaped"]
           ELSE IF branch = "Timeout"
           THEN /\ rpc' = "done"
                /\ rret' = [kind |-> "Timeout", code |-> 0, elapsed_ms |-> 0]
                /\ child' = [child EXCEPT !.state = "killed"]
           ELSE /\ rpc' = "sleep"
                /\ UNCHANGED <<rret, child>>
    /\ UNCHANGED <<timeout_ms, elapsed_ms, sleeps>>

\* `std::thread::sleep(Duration::from_millis(50))`, then the loop repeats.
Sleep(d) ==
    /\ rpc = "sleep"
    /\ sleeps < MaxSleeps
    /\ elapsed_ms' = elapsed_ms + d
    /\ sleeps' = sleeps + 1
    /\ rpc' = "poll"
    /\ UNCHANGED <<timeout_ms, child, rret>>

NextRunner ==
    \/ \E t \in Timeouts, ok \in BOOLEAN : Spawn(t, ok) /\ UNCHANGED <<wfvars, dvars, repvars, cmpvars, svars, tsvars, gvars, civars, bkvars>>
    \/ \E c \in {0, 1} : ChildExits(c) /\ UNCHANGED <<wfvars, dvars, repvars, cmpvars, svars, tsvars, gvars, civars, bkvars>>
    \/ \E ok \in BOOLEAN : Poll(ok) /\ UNCHANGED <<wfvars, dvars, repvars, cmpvars, svars, tsvars, gvars, civars, bkvars>>
    \/ \E d \in SleepDurations : Sleep(d) /\ UNCHANGED <<wfvars, dvars, repvars, cmpvars, svars, tsvars, gvars, civars, bkvars>>

\* ===================================================================
\* Regression classification: compute_delta_status and compare_values
\* ===================================================================

\* Metric values (f64 holding whole numbers) and threshold percentages. The
\* threshold is an unvalidated f64 of the command line: it may be negative.
Values == (0 - MaxValue)..MaxValue
Thresholds == {0 - 10, 0, 10, 25}

\* f64 quotients are kept exact, as a numerator and a nonzero denominator.
\* `if baseline != 0.0 { delta_abs * 100.0 / baseline } else { 0.0 }`
percent_of(delta_abs, baseline) ==
    IF baseline # 0 THEN [num |-> delta_abs * 100, den |-> baseline]
    ELSE [num |-> 0, den |-> 1]

\* q > x and q < x for a quotient q and a whole number x.
QGt(q, x) == IF q.den > 0 THEN q.num > x * q.den ELSE q.num < x * q.den
QLt(q, x) == IF q.den > 0 THEN q.num < x * q.den ELSE q.num > x * q.den

compute_delta_status_ge(baseline, target, threshold_pct, higher_is_worse) ==
    LET delta_abs == target - baseline
        delta_pct == percent_of(delta_abs, baseline)
    IN  [delta_abs |-> delta_abs, delta_pct |-> delta_pct,
         status |-> IF higher_is_worse
                    THEN IF ~QLt(delta_pct, threshold_pct) THEN "ExceededThreshold"
                         ELSE IF ~QGt(delta_pct, 0 - threshold_pct) THEN "Improved"
                         ELSE "Ok"
                    ELSE "Ok"]

compute_delta_status_nozero(baseline, target, threshold_pct, higher_is_worse) ==
    LET delta_abs == target - baseline
        delta_pct == IF baseline # 0 THEN percent_of(delta_abs, baseline)
                     ELSE [num |-> delta_abs * 100, den |-> 1]
    IN  [delta_abs |-> delta_abs, delta_pct |-> delta_pct,
         status |-> IF higher_is_worse
                    THEN IF QGt(delta_pct, threshold_pct) THEN "ExceededThreshold"
                         ELSE IF QLt(delta_pct, 0 - threshold_pct) THEN "Improved"
                         ELSE "Ok"
                    ELSE "Ok"]

\* report::compute_delta_status
compute_delta_status(baseline, target, threshold_pct, higher_is_worse) ==
    LET delta_abs == target - baseline
        delta_pct == percent_of(delta_abs, baseline)
    IN  [delta_abs |-> delta_abs, delta_pct |-> delta_pct,
         status |-> IF higher_is_worse
                    THEN IF QGt(delta_pct, threshold_pct) THEN "ExceededThreshold"
                         ELSE IF QLt(delta_pct, 0 - threshold_pct) THEN "Improved"
                         ELSE "Ok"
                    ELSE "Ok"]

\* The body of compare_values for one matched metric (lines 138-161): the
\* MetricComparison pushed for baseline value bv and target value tv.
metric_comparison(display_name, bv, tv, threshold, higher_is_worse) ==
    LET delta == tv - bv
        percent == percent_of(delta, bv)
    IN  [metric |-> display_name, baseline |-> bv, target |-> tv,
         delta |-> delta, percent |-> percent,
         status |-> IF higher_is_worse
                    THEN IF QGt(percent, threshold) THEN "Regression"
                         ELSE IF QLt(percent, 0 - threshold) THEN "Improvement"
                         ELSE "Unchanged"
                    ELSE "Unchanged"]

InitDelta ==
    /\ delta_in = None
    /\ delta_out = None

\* A caller classifies one metric, through compute_delta_status and through
\* the same logic in compare_values.
ClassifyDelta(baseline, target, threshold, higher_is_worse) ==
    /\ delta_in' = Some([baseline |-> baseline, target |-> target,
                         threshold |-> threshold, higher_is_worse |-> higher_is_worse])
    /\ delta_out' = Some([report |-> compute_delta_status(baseline, target, threshold,
                                                          higher_is_worse),
                          compare |-> metric_comparison("m", baseline, target, threshold,
                                                        higher_is_worse)])

\* One classification is made in a behaviour.
NextDelta ==
    /\ delta_in = None
    /\ \E b \in Values, t \in Values, th \in Thresholds, hiw \in BOOLEAN :
           ClassifyDelta(b, t, th, hiw) /\ UNCHANGED <<wfvars, rvars, repvars, cmpvars, svars, tsvars, gvars, civars, bkvars>>

\* ===================================================================
\* Regression report: RegressionReport::new, add_circuit, finalize
\* ===================================================================

\* enum RegressionStatus
RegressionStatuses ==
    {"ExceededThreshold", "Improved", "Ok", "MissingBaseline", "Error", "Skipped"}

\* The sequences over S of length 0..n.
SeqsUpTo(S, n) == UNION {[1..k -> S] : k \in 0..n}

\* The MetricDelta values added: the metric name and the status. (The
\* numeric fields are carried along and read by neither add_circuit nor
\* finalize.)
MetricDeltas == [metric : {"prove_ms"}, status : RegressionStatuses]

\* The CircuitRegression values added. The circuit's own status is chosen by
\* the caller and read by neither add_circuit nor finalize; here it is Ok
\* whatever the metrics are.
CircuitRegressions ==
    [circuit_name : {"c"}, metrics : SeqsUpTo(MetricDeltas, MaxMetrics),
     status : {"Ok"}]

\* RegressionStatus::is_failure
is_failure(st) == st \in {"ExceededThreshold", "Error"}

\* The summary of RegressionReport::new: every count and the exit code 0.
NewSummary ==
    [total_circuits |-> 0, circuits_with_regressions |-> 0,
     circuits_with_improvements |-> 0, total_metrics |-> 0, regressions |-> 0,
     improvements |-> 0, unchanged |-> 0, missing_baselines |-> 0, errors |-> 0,
     ci_exit_code |-> 0]

\* report::regression::REGRESSION_REPORT_VERSION
REGRESSION_REPORT_VERSION == 1

\* RegressionReport::new: the ids and the threshold are those of the one
\* report of the model, no provenance is set.
RegressionReport_new ==
    [version |-> REGRESSION_REPORT_VERSION,
     metadata |-> [baseline_id |-> "baseline", target_id |-> "target",
                   threshold_percent |-> 10,
                   baseline_provenance |-> None, target_provenance |-> None],
     circuits |-> <<>>,
     summary |-> NewSummary,
     version_mismatches |-> <<>>]

count_metric_lumped(summary, st) ==
    LET s1 == [summary EXCEPT !.total_metrics = @ + 1]
    IN  CASE st = "ExceededThreshold" -> [s1 EXCEPT !.regressions = @ + 1]
          [] st = "Improved" -> [s1 EXCEPT !.improvements = @ + 1]
          [] st = "Error" -> [s1 EXCEPT !.errors = @ + 1]
          [] OTHER -> [s1 EXCEPT !.unchanged = @ + 1]

\* One pass of `for metric in &circuit.metrics { .. match metric.status .. }`
count_metric(summary, st) ==
    LET s1 == [summary EXCEPT !.total_metrics = @ + 1]
    IN  CASE st = "ExceededThreshold" -> [s1 EXCEPT !.regressions = @ + 1]
          [] st = "Improved" -> [s1 EXCEPT !.improvements = @ + 1]
          [] st = "Ok" -> [s1 EXCEPT !.unchanged = @ + 1]
          [] st = "MissingBaseline" -> [s1 EXCEPT !.missing_baselines = @ + 1]
          [] st = "Error" -> [s1 EXCEPT !.errors = @ + 1]
          [] st = "Skipped" -> s1

RECURSIVE count_metrics(_, _)
count_metrics(summary, metrics) ==
    IF metrics = <<>> THEN summary
    ELSE count_metrics(count_metric(summary, Head(metrics).status), Tail(metrics))

\* An add_circuit that also brings the exit code up to date.
add_circuit_eager(rep, circuit) ==
    LET has_regression ==
            \E k \in 1..Len(circuit.metrics) :
                circuit.metrics[k].status = "ExceededThreshold"
        has_improvement ==
            \E k \in 1..Len(circuit.metrics) : circuit.metrics[k].status = "Improved"
        s1 == [rep.summary EXCEPT
                 !.total_circuits = @ + 1,
                 !.circuits_with_regressions = IF has_regression THEN @ + 1 ELSE @,
                 !.circuits_with_improvements = IF has_improvement THEN @ + 1 ELSE @]
        s2 == count_metrics(s1, circuit.metrics)
    IN  [rep EXCEPT !.circuits = Append(rep.circuits, circuit),
                    !.summary = [s2 EXCEPT !.ci_exit_code =
                                    IF s2.regressions > 0 \/ s2.errors > 0 THEN 1 ELSE 0]]

\* RegressionReport::add_circuit
add_circuit(rep, circuit) ==
    LET has_regression ==
            \E k \in 1..Len(circuit.metrics) :
                circuit.metrics[k].status = "ExceededThreshold"
        has_improvement ==
            \E k \in 1..Len(circuit.metrics) : circuit.metrics[k].status = "Improved"
        s1 == [rep.summary EXCEPT
                 !.total_circuits = @ + 1,
                 !.circuits_with_regressions = IF has_regression THEN @ + 1 ELSE @,
                 !.circuits_with_improvements = IF has_improvement THEN @ + 1 ELSE @]
    IN  [rep EXCEPT !.circuits = Append(rep.circuits, circuit),
                    !.summary = count_metrics(s1, circuit.metrics)]

finalize_regressions_only(rep) ==
    [rep EXCEPT !.summary.ci_exit_code = IF rep.summary.regressions > 0 THEN 1 ELSE 0]

\* RegressionReport::finalize
finalize(rep) ==
    [rep EXCEPT !.summary.ci_exit_code =
        IF rep.summary.regressions > 0 \/ rep.summary.errors > 0 THEN 1 ELSE 0]

InitReport ==
    /\ report = RegressionReport_new
    /\ last_op = "new"
    /\ finalized = FALSE

\* report.add_circuit(circuit)
AddCircuit(circuit) ==
    /\ Len(report.circuits) < MaxCircuits
    /\ report' = add_circuit(report, circuit)
    /\ last_op' = "add_circuit"
    /\ UNCHANGED finalized

\* report.finalize()
Finalize ==
    /\ report' = finalize(report)
    /\ last_op' = "finalize"
    /\ finalized' = TRUE

NextReport ==
    \/ \E c \in CircuitRegressions : AddCircuit(c) /\ UNCHANGED <<wfvars, rvars, dvars, cmpvars, svars, tsvars, gvars, civars, bkvars>>
    \/ Finalize /\ UNCHANGED <<wfvars, rvars, dvars, cmpvars, svars, tsvars, gvars, civars, bkvars>>

\* ===================================================================
\* Comparator: compare_cmd.rs
\* ===================================================================

\* serde_json::Value, as far as the comparator reads it.
JNull == [t |-> "null"]
JNum(n) == [t |-> "num", v |-> n]
JStr(s) == [t |-> "str", s |-> s]
JObj(f) == [t |-> "obj", f |-> f]

\* Value::get(key): the member of an object, None for any other value.
get(v, key) == IF v.t = "obj" /\ key \in DOMAIN v.f THEN Some(v.f[key]) ELSE None

\* `x.as_f64().or_else(|| x.as_u64().map(|u| u as f64))`
as_num(x) == IF x.t = "num" THEN Some(x.v) ELSE None

\* Value::as_str
as_str(x) == IF x.t = "str" THEN Some(x.s) ELSE None

\* METRIC_DEFS, in table order. A json_path is kept as the sequence of its
\* parts, that is as path.split('.') returns it.
METRIC_DEFS ==
    << [json_path |-> <<"prove_time_ms">>, display_name |-> "prove_ms",
        higher_is_worse |-> TRUE],
       [json_path |-> <<"prove_stats", "mean_ms">>, display_name |-> "prove_ms",
        higher_is_worse |-> TRUE],
       [json_path |-> <<"witness_gen_time_ms">>, display_name |-> "witness_ms",
        higher_is_worse |-> TRUE],
       [json_path |-> <<"witness_stats", "mean_ms">>, display_name |-> "witness_ms",
        higher_is_worse |-> TRUE],
       [json_path |-> <<"verify_time_ms">>, display_name |-> "verify_ms",
        higher_is_worse |-> TRUE],
       [json_path |-> <<"verify_stats", "mean_ms">>, display_name |-> "verify_ms",
        higher_is_worse |-> TRUE],
       [json_path |-> <<"backend_prove_time_ms">>, display_name |-> "backend_ms",
        higher_is_worse |-> TRUE],
       [json_path |-> <<"execution_time_ms">>, display_name |-> "exec_ms",
        higher_is_worse |-> TRUE],
       [json_path |-> <<"total_gates">>, display_name |-> "gates",
        higher_is_worse |-> TRUE],
       [json_path |-> <<"proof_size_bytes">>, display_name |-> "proof_size",
        higher_is_worse |-> TRUE],
       [json_path |-> <<"peak_memory_bytes">>, display_name |-> "peak_mem",
        higher_is_worse |-> TRUE],
       [json_path |-> <<"peak_rss_mb">>, display_name |-> "peak_rss_mb",
        higher_is_worse |-> TRUE],
       [json_path |-> <<"proving_key_size_bytes">>, display_name |-> "pk_size",
        higher_is_worse |-> FALSE],
       [json_path |-> <<"verification_key_size_bytes">>, display_name |-> "vk_size",
        higher_is_worse |-> FALSE] >>

\* `for part in &parts[..parts.len() - 1] { current = current.get(*part)?; }`
RECURSIVE get_path(_, _)
get_path(current, parts) ==
    IF parts = <<>> THEN Some(current)
    ELSE LET next == get(current, Head(parts))
         IN  IF next = None THEN None ELSE get_path(next[1], Tail(parts))

\* get_nested_num
get_nested_num(v, parts) ==
    LET current == get_path(v, SubSeq(parts, 1, Len(parts) - 1))
    IN  IF current = None THEN None
        ELSE LET x == get(current[1], parts[Len(parts)])
             IN  IF x = None THEN None ELSE as_num(x[1])

\* Path::file_stem of the artifact paths that occur.
file_stem(path) == IF path = "target/c.json" THEN Some("c") ELSE None

\* get_circuit_name: circuit_name, else name, else the stem of artifact_path.
get_circuit_name(v) ==
    LET cn == get(v, "circuit_name")
        nm == get(v, "name")
        ap == get(v, "artifact_path")
        by_circuit_name == IF cn = None THEN None ELSE as_str(cn[1])
        by_name == IF nm = None THEN None ELSE as_str(nm[1])
        by_artifact ==
            IF ap = None \/ as_str(ap[1]) = None THEN None
            ELSE LET stem == file_stem(as_str(ap[1])[1])
                 IN  IF stem = None THEN Some("unknown") ELSE stem
    IN  IF by_circuit_name # None THEN by_circuit_name
        ELSE IF by_name # None THEN by_name
        ELSE by_artifact

already_seen_never(seen_metrics, display_name) == FALSE

\* `seen_metrics.contains(*display_name)`
already_seen(seen_metrics, display_name) == display_name \in seen_metrics

\* The loop of compare_values from table entry k on, with the results and
\* the seen display names accumulated so far.
RECURSIVE compare_values_from(_, _, _, _, _, _)
compare_values_from(k, results, seen_metrics, baseline, target, threshold) ==
    IF k > Len(METRIC_DEFS) THEN results
    ELSE LET def == METRIC_DEFS[k]
             bv == get_nested_num(baseline, def.json_path)
             tv == get_nested_num(target, def.json_path)
         IN  IF already_seen(seen_metrics, def.display_name)
             THEN compare_values_from(k + 1, results, seen_metrics,
                                      baseline, target, threshold)
             ELSE IF bv # None /\ tv # None
             THEN compare_values_from(
                      k + 1,
                      Append(results,
                             metric_comparison(def.display_name, bv[1], tv[1],
                                               threshold, def.higher_is_worse)),
                      seen_metrics \cup {def.display_name},
                      baseline, target, threshold)
             ELSE compare_values_from(k + 1, results, seen_metrics,
                                      baseline, target, threshold)

\* compare_values
compare_values(baseline, target, threshold) ==
    compare_values_from(1, <<>>, {}, baseline, target, threshold)

any_regression_never(metrics) == FALSE

\* `metrics.iter().any(|m| m.status == CompareStatus::Regression)`
any_regression(metrics) ==
    \E k \in 1..Len(metrics) : metrics[k].status = "Regression"

\* compare_single_records
compare_single_records(baseline, target, threshold) ==
    LET from_baseline == get_circuit_name(baseline)
        from_target == get_circuit_name(target)
        metrics == compare_values(baseline, target, threshold)
    IN  [circuit_name |-> IF from_baseline # None THEN from_baseline[1]
                          ELSE IF from_target # None THEN from_target[1]
                          ELSE "unknown",
         metrics |-> metrics,
         has_regression |-> any_regression(metrics)]

\* BenchResult<T>
Ok(x) == [ok |-> TRUE, value |-> x]
Err(message) == [ok |-> FALSE, error |-> message]

\* The BenchRecords a JSONL file holds: the circuit name and the optional
\* prove_stats, of which the comparator reads mean_ms. The record's other
\* optional metrics are None.
BenchRecords ==
    [circuit_name : {"a", "b"},
     prove_stats : {Some([mean_ms |-> 100]), Some([mean_ms |-> 130])}]

\* serde_json::to_value(&record): an Option field that is None is skipped.
to_value(rec) ==
    LET keys == {"circuit_name"} \cup
                (IF rec.prove_stats # None THEN {"prove_stats"} ELSE {})
    IN  JObj([key \in keys |->
                IF key = "circuit_name" THEN JStr(rec.circuit_name)
                ELSE JObj([f \in {"mean_ms"} |-> JNum(rec.prove_stats[1].mean_ms)])])

\* A JSONL file: None when read_all fails (no such file, a line that does
\* not parse), else its records in file order.
JsonlFiles == {None} \cup {Some(records) : records \in SeqsUpTo(BenchRecords, MaxRecords)}

\* How a single JSON report names its circuit, if at all.
Namings ==
    {None, Some([key |-> "circuit_name", val |-> "a"]),
     Some([key |-> "name", val |-> "b"]),
     Some([key |-> "artifact_path", val |-> "target/c.json"])}

\* A single JSON report with the legacy flat prove_time_ms and the nested
\* prove_stats.mean_ms, each present or not.
JsonDoc(naming, flat, nested) ==
    LET keys == (IF naming # None THEN {naming[1].key} ELSE {}) \cup
                (IF flat # None THEN {"prove_time_ms"} ELSE {}) \cup
                (IF nested # None THEN {"prove_stats"} ELSE {})
    IN  JObj([key \in keys |->
                IF key = "prove_time_ms" THEN JNum(flat[1])
                ELSE IF key = "prove_stats"
                THEN JObj([f \in {"mean_ms"} |-> JNum(nested[1])])
                ELSE JStr(naming[1].val)])

JsonDocs ==
    {JsonDoc(naming, flat, nested) :
        naming \in Namings, flat \in {None, Some(100), Some(120)},
        nested \in {None, Some(100), Some(130)}}

\* A single JSON file: None when it cannot be read or parsed.
JsonFiles == {None} \cup {Some(doc) : doc \in JsonDocs}

\* The thresholds a comparison is run with.
CompareThresholds == {10, 25}

\* The CompareConfig values: a JSONL pair, a single-JSON pair, or neither
\* pair complete.
CompareConfigs ==
    [baseline_file : {Some(f) : f \in JsonlFiles}, target_file : {Some(f) : f \in JsonlFiles},
     baseline_json : {None}, target_json : {None}, threshold : CompareThresholds]
    \cup
    [baseline_file : {None}, target_file : {None},
     baseline_json : {Some(f) : f \in JsonFiles}, target_json : {Some(f) : f \in JsonFiles},
     threshold : CompareThresholds]
    \cup
    [baseline_file : {None, Some(Some(<<>>))}, target_file : {None},
     baseline_json : {None}, target_json : {None, Some(Some(JNull))},
     threshold : CompareThresholds]

\* A map in which the first baseline record of a name is kept.
baseline_map_first(baseline_records) ==
    [name \in {baseline_records[k].circuit_name : k \in 1..Len(baseline_records)} |->
        LET first == CHOOSE k \in 1..Len(baseline_records) :
                         /\ baseline_records[k].circuit_name = name
                         /\ \A j \in 1..(k - 1) :
                                baseline_records[j].circuit_name # name
        IN  to_value(baseline_records[first])]

\* baseline_map after the inserting loop: for each circuit name, the json of
\* the last baseline record of that name.
baseline_map_of(baseline_records) ==
    [name \in {baseline_records[k].circuit_name : k \in 1..Len(baseline_records)} |->
        LET last == CHOOSE k \in 1..Len(baseline_records) :
                        /\ baseline_records[k].circuit_name = name
                        /\ \A j \in (k + 1)..Len(baseline_records) :
                               baseline_records[j].circuit_name # name
        IN  to_value(baseline_records[last])]

\* compare_jsonl_files
compare_jsonl_files(baseline_file, target_file, threshold) ==
    IF baseline_file = None \/ target_file = None THEN Err("read_all failed")
    ELSE LET baseline_map == baseline_map_of(baseline_file[1])
             target_records == target_file[1]
         IN  Ok([k \in 1..Len(target_records) |->
                   LET rec == target_records[k]
                       target_json == to_value(rec)
                   IN  IF rec.circuit_name \in DOMAIN baseline_map
                       THEN compare_single_records(baseline_map[rec.circuit_name],
                                                   target_json, threshold)
                       ELSE [circuit_name |-> rec.circuit_name,
                             metrics |-> compare_values(JNull, target_json, threshold),
                             has_regression |-> FALSE]])

\* compare_json_files
compare_json_files(baseline_file, target_file, threshold) ==
    IF baseline_file = None \/ target_file = None THEN Err("read failed")
    ELSE Ok(<<compare_single_records(baseline_file[1], target_file[1], threshold)>>)

\* `circuits.iter().flat_map(|c| &c.metrics).filter(|m| m.status == st).count()`
count_status(circuits, st) ==
    Cardinality({ck \in UNION {{<<c, k>> : k \in 1..Len(circuits[c].metrics)} :
                                  c \in 1..Len(circuits)} :
                    circuits[ck[1]].metrics[ck[2]].status = st})

\* compare
compare(config) ==
    LET circuits ==
            IF config.baseline_file # None /\ config.target_file # None
            THEN compare_jsonl_files(config.baseline_file[1], config.target_file[1],
                                     config.threshold)
            ELSE IF config.baseline_json # None /\ config.target_json # None
            THEN compare_json_files(config.baseline_json[1], config.target_json[1],
                                    config.threshold)
            ELSE Err("must provide either --baseline-file/--target-file or --baseline/--contender")
    IN  IF ~circuits.ok THEN circuits
        ELSE LET total_regressions == count_status(circuits.value, "Regression")
             IN  Ok([threshold |-> config.threshold,
                     circuits |-> circuits.value,
                     total_regressions |-> total_regressions,
                     total_improvements |-> count_status(circuits.value, "Improvement"),
                     ci_exit_code |-> IF total_regressions > 0 THEN 1 ELSE 0])

\* A conversion that loses the status of the metric.
to_metric_delta_status_lost(m, threshold) ==
    [metric |-> m.metric, baseline |-> m.baseline, target |-> m.target,
     delta_abs |-> m.delta, delta_pct |-> m.percent, threshold |-> threshold,
     status |-> "Ok"]

\* The MetricDelta that to_regression_report makes of a MetricComparison.
to_metric_delta(m, threshold) ==
    [metric |-> m.metric, baseline |-> m.baseline, target |-> m.target,
     delta_abs |-> m.delta, delta_pct |-> m.percent, threshold |-> threshold,
     status |-> CASE m.status = "Regression" -> "ExceededThreshold"
                  [] m.status = "Improvement" -> "Improved"
                  [] m.status = "Unchanged" -> "Ok"]

\* The CircuitRegression that to_regression_report makes of a
\* CircuitComparison.
to_circuit_regression(circuit, threshold) ==
    LET metrics == [k \in 1..Len(circuit.metrics) |->
                       to_metric_delta(circuit.metrics[k], threshold)]
    IN  [circuit_name |-> circuit.circuit_name, params |-> None, metrics |-> metrics,
         status |-> IF circuit.has_regression THEN "ExceededThreshold"
                    ELSE IF \E k \in 1..Len(metrics) : metrics[k].status = "Improved"
                    THEN "Improved"
                    ELSE "Ok"]

\* `for circuit in &result.circuits { .. report.add_circuit(..) }`
RECURSIVE add_circuits(_, _, _)
add_circuits(rep, circuits, threshold) ==
    IF Len(circuits) = 0 THEN rep
    ELSE add_circuits(add_circuit(rep, to_circuit_regression(Head(circuits), threshold)),
                      Tail(circuits), threshold)

\* to_regression_report
to_regression_report(result) ==
    finalize(add_circuits([RegressionReport_new EXCEPT
                              !.metadata.threshold_percent = result.threshold],
                          result.circuits, result.threshold))

InitCompare ==
    /\ cmp_in = None
    /\ cmp_out = None

\* compare_cmd::run: compare(&config)?, then the RegressionReport of the
\* result, as written to json_out.
Run(config) ==
    /\ cmp_in' = Some(config)
    /\ LET result == compare(config)
       IN  cmp_out' = Some([result |-> result,
                            report |-> IF result.ok
                                       THEN Some(to_regression_report(result.value))
                                       ELSE None])

\* One comparison is run in a behaviour.
NextCompare ==
    /\ cmp_in = None
    /\ \E config \in CompareConfigs :
           Run(config) /\ UNCHANGED <<wfvars, rvars, dvars, repvars, svars, tsvars, gvars, civars, bkvars>>

\* ===================================================================
\* JSONL storage: storage/jsonl.rs
\* ===================================================================

\* core::schema::SCHEMA_VERSION
SCHEMA_VERSION == 1

\* The JsonlWriter instances: each holds only its path, and all of them are
\* on the one path of the model.
Writers == [id : {"w1", "w2"}, path : {"out/bench.jsonl"}]

\* The BenchRecords handed to append: the schema version, the circuit name
\* and the optional prove_stats. Their numbers are finite, as are those of
\* every record the engine builds.
StoredRecords ==
    [schema_version : {SCHEMA_VERSION, SCHEMA_VERSION + 1},
     circuit_name : {"a", "b"},
     prove_stats : {None, Some([mean_ms |-> 100])}]

\* How the operating system may treat the file operations of one append.
IoOutcomes == {"ok", "mkdir_fails", "open_fails", "write_fails", "write_torn"}

\* serde_json::to_string(record), as the JSON object written on the line: an
\* Option field that is None is skipped.
to_string(rec) ==
    LET keys == {"schema_version", "circuit_name"} \cup
                (IF rec.prove_stats # None THEN {"prove_stats"} ELSE {})
    IN  JObj([key \in keys |->
                IF key = "schema_version" THEN JNum(rec.schema_version)
                ELSE IF key = "circuit_name" THEN JStr(rec.circuit_name)
                ELSE JObj([f \in {"mean_ms"} |-> JNum(rec.prove_stats[1].mean_ms)])])

\* A complete line of the file holding the JSON text of one record, and a
\* line that is no JSON text (the rest of a torn write, with what followed).
JsonLine(json) == [kind |-> "json", value |-> json]
GarbageLine == [kind |-> "garbage", value |-> JNull]

\* serde_json::from_str::<BenchRecord>(&line): an error for a line that is
\* not the JSON of a record, a missing optional field is None.
from_str(line) ==
    IF line.kind # "json" THEN Err("failed to parse line")
    ELSE LET sv == get(line.value, "schema_version")
             cn == get(line.value, "circuit_name")
             ps == get(line.value, "prove_stats")
         IN  IF sv = None \/ cn = None THEN Err("failed to parse line")
             ELSE IF as_num(sv[1]) = None \/ as_str(cn[1]) = None
             THEN Err("failed to parse line")
             ELSE IF ps # None /\ get_nested_num(ps[1], <<"mean_ms">>) = None
             THEN Err("failed to parse line")
             ELSE Ok([schema_version |-> as_num(sv[1])[1],
                      circuit_name |-> as_str(cn[1])[1],
                      prove_stats |->
                          IF ps = None THEN None
                          ELSE Some([mean_ms |->
                                        get_nested_num(ps[1], <<"mean_ms">>)[1]])])

\* The file system at the writers' path: whether the parent directory
\* exists, and the file: None when absent, else its complete lines and
\* whether an unterminated rest of a torn write follows them. At the start
\* neither the directory nor the file is there.
NoFile == [dir |-> FALSE, file |-> None]

version_accepted_any(rec) == TRUE

\* `record.schema_version != SCHEMA_VERSION` is false
version_accepted(rec) == rec.schema_version = SCHEMA_VERSION

write_line_truncating(file, line) == [lines |-> <<line>>, tail |-> FALSE]

\* `writeln!(file, "{}", json)` on a file opened with append(true): the line
\* goes after everything the file holds; it ends a torn rest, if any, and
\* makes one unreadable line with it.
write_line(file, line) ==
    [lines |-> Append(file.lines, IF file.tail THEN GarbageLine ELSE line),
     tail |-> FALSE]

\* The lines that BufReader::lines yields: the complete lines, then the
\* unterminated rest if there is one.
lines_of(file) == IF file.tail THEN Append(file.lines, GarbageLine) ELSE file.lines

\* The loop of read_filtered(None): the records of the lines, or the error
\* of the first line that does not parse.
RECURSIVE parse_lines(_, _)
parse_lines(lines, records) ==
    IF lines = <<>> THEN Ok(records)
    ELSE LET parsed == from_str(Head(lines))
         IN  IF ~parsed.ok THEN parsed
             ELSE parse_lines(Tail(lines), Append(records, parsed.value))

\* JsonlWriter::read_all
read_all(f) ==
    IF f.file = None THEN Err("file not found")
    ELSE parse_lines(lines_of(f.file[1]), <<>>)

\* JsonlWriter::count
count(f) ==
    IF f.file = None THEN Ok(0) ELSE Ok(Len(lines_of(f.file[1])))

InitStorage ==
    /\ fs = NoFile
    /\ sop = [op |-> "new"]
    /\ sret = Ok(0)
    /\ appended = <<>>
    /\ torn_write = FALSE
    /\ n_appends = 0

\* The parent directory is made by someone else, before the first call of a
\* writer.
MakeParentDir ==
    /\ sop.op = "new"
    /\ ~fs.dir
    /\ fs' = [fs EXCEPT !.dir = TRUE]
    /\ UNCHANGED <<sop, sret, appended, torn_write, n_appends>>

\* writer.append(&record), with the outcome io of its file operations
AppendRecord(w, rec, io) ==
    /\ n_appends < MaxAppends
    /\ io = "mkdir_fails" => ~fs.dir
    /\ n_appends' = n_appends + 1
    /\ sop' = [op |-> "append", rec |-> rec, io |-> io, before |-> fs]
    /\ IF ~version_accepted(rec)
       THEN /\ sret' = Err("schema version mismatch")
            /\ UNCHANGED <<fs, appended, torn_write>>
       ELSE IF ~fs.dir /\ io = "mkdir_fails"
       THEN /\ sret' = Err("failed to create directory")
            /\ UNCHANGED <<fs, appended, torn_write>>
       ELSE IF io = "open_fails"
       THEN /\ sret' = Err("failed to open file")
            /\ fs' = [fs EXCEPT !.dir = TRUE]
            /\ UNCHANGED <<appended, torn_write>>
       ELSE LET opened == IF fs.file = None THEN [lines |-> <<>>, tail |-> FALSE]
                          ELSE fs.file[1]
            IN  IF io = "write_fails"
                THEN /\ sret' = Err("failed to write record")
                     /\ fs' = [dir |-> TRUE, file |-> Some(opened)]
                     /\ UNCHANGED <<appended, torn_write>>
                ELSE IF io = "write_torn"
                THEN /\ sret' = Err("failed to write record")
                     /\ fs' = [dir |-> TRUE, file |-> Some([opened EXCEPT !.tail = TRUE])]
                     /\ torn_write' = TRUE
                     /\ UNCHANGED appended
                ELSE /\ sret' = Ok(0)
                     /\ fs' = [dir |-> TRUE,
                               file |-> Some(write_line(opened, JsonLine(to_string(rec))))]
                     /\ appended' = Append(appended, rec)
                     /\ UNCHANGED torn_write

\* writer.read_all()
ReadAll(w) ==
    /\ sop' = [op |-> "read_all"]
    /\ sret' = read_all(fs)
    /\ UNCHANGED <<fs, appended, torn_write, n_appends>>

\* writer.count()
Count(w) ==
    /\ sop' = [op |-> "count"]
    /\ sret' = count(fs)
    /\ UNCHANGED <<fs, appended, torn_write, n_appends>>

NextStorage ==
    \/ \E w \in Writers, rec \in StoredRecords, io \in IoOutcomes :
          AppendRecord(w, rec, io) /\ UNCHANGED <<wfvars, rvars, dvars, repvars, cmpvars, tsvars, gvars, civars, bkvars>>
    \/ \E w \in Writers : ReadAll(w) /\ UNCHANGED <<wfvars, rvars, dvars, repvars, cmpvars, tsvars, gvars, civars, bkvars>>
    \/ \E w \in Writers : Count(w) /\ UNCHANGED <<wfvars, rvars, dvars, repvars, cmpvars, tsvars, gvars, civars, bkvars>>
    \/ MakeParentDir /\ UNCHANGED <<wfvars, rvars, dvars, repvars, cmpvars, tsvars, gvars, civars, bkvars>>

\* ===================================================================
\* Gate information (backend/traits.rs, backend/barretenberg.rs)
\* ===================================================================

\* The number of bits of the unsigned gate count. The source's u64 has 64;
\* the model keeps the type's arithmetic at a width TLC can enumerate.
U64_BITS == 7

\* u64::MAX at that width.
U64_MAX == 2^U64_BITS - 1

\* The two ways the crate is built: with overflow checks (debug) and
\* without (release).
Builds == {"debug", "release"}

\* u64::next_power_of_two: one_less_than_next_power_of_two() + 1, where the
\* first term is the smallest 2^k - 1 that is >= self - 1 (0 for self <= 1).
\* The addition overflows when self > 2^(bits-1): the checked build panics,
\* the unchecked build wraps to 0.
one_less_than_next_power_of_two(gates) ==
    IF gates <= 1 THEN 0
    ELSE LET k == CHOOSE k \in 0..U64_BITS :
                      /\ 2^k - 1 >= gates - 1
                      /\ \A j \in 0..U64_BITS : 2^j - 1 >= gates - 1 => k <= j
         IN  2^k - 1

next_power_of_two_overflows(gates) ==
    one_less_than_next_power_of_two(gates) + 1 > U64_MAX

next_power_of_two(gates) ==
    (one_less_than_next_power_of_two(gates) + 1) % (U64_MAX + 1)

\* `if gates > 0 { Some(gates.next_power_of_two()) } else { None }`
subgroup_size_of(gates) ==
    IF gates > 0 THEN Some(next_power_of_two(gates)) ELSE None

\* Whether evaluating that expression panics in the given build.
subgroup_size_panics(gates, build) ==
    gates > 0 /\ build = "debug" /\ next_power_of_two_overflows(gates)

\* GateInfo::from_gates
from_gates(gates) ==
    [backend_gates |-> gates, subgroup_size |-> subgroup_size_of(gates),
     acir_opcodes |-> None, per_opcode |-> None]

\* What `bb gates` may answer: it cannot be run, it exits with a failure
\* status, its output does not parse, or it parses into a list of function
\* reports (acir_opcodes, total_gates, gates_per_opcode).
GatesReports ==
    [acir_opcodes : {3}, total_gates : 0..U64_MAX,
     gates_per_opcode : {<<>>, <<2, 1>>}]

BbGatesOutcomes ==
    { [kind |-> "spawn_fails", functions |-> <<>>],
      [kind |-> "exit_failure", functions |-> <<>>],
      [kind |-> "bad_json", functions |-> <<>>],
      [kind |-> "parsed", functions |-> <<>>] }
    \cup { [kind |-> "parsed", functions |-> <<r>>] : r \in GatesReports }

\* BarretenbergBackend::gate_info, after the subprocess has answered.
gate_info(outcome) ==
    IF outcome.kind = "spawn_fails" THEN Err("failed to run bb gates")
    ELSE IF outcome.kind = "exit_failure" THEN Err("bb gates failed")
    ELSE IF outcome.kind = "bad_json" THEN Err("failed to parse bb gates output")
    ELSE IF outcome.functions = <<>> THEN Err("no functions in gates output")
    ELSE LET func == outcome.functions[1]
             backend_gates == func.total_gates
         IN  Ok([backend_gates |-> backend_gates,
                 subgroup_size |-> subgroup_size_of(backend_gates),
                 acir_opcodes |-> Some(func.acir_opcodes),
                 per_opcode |-> IF func.gates_per_opcode # <<>>
                                THEN Some(func.gates_per_opcode) ELSE None])

InitGates ==
    /\ gi_in = None
    /\ gi_out = None

\* One call of GateInfo::from_gates(gates).
FromGates(gates, build) ==
    /\ gi_in' = Some([op |-> "from_gates", gates |-> gates, build |-> build])
    /\ gi_out' = IF subgroup_size_panics(gates, build)
                 THEN Some([panicked |-> TRUE, value |-> None])
                 ELSE Some([panicked |-> FALSE,
                            value |-> Some(Ok(from_gates(gates)))])

\* One call of BarretenbergBackend::gate_info on an answer of `bb gates`.
GateInfoFromBb(outcome, build) ==
    /\ gi_in' = Some([op |-> "gate_info",
                      gates |-> IF outcome.kind = "parsed" /\ outcome.functions # <<>>
                                THEN outcome.functions[1].total_gates ELSE 0,
                      build |-> build])
    /\ gi_out' = IF /\ outcome.kind = "parsed"
                    /\ outcome.functions # <<>>
                    /\ subgroup_size_panics(outcome.functions[1].total_gates, build)
                 THEN Some([panicked |-> TRUE, value |-> None])
                 ELSE Some([panicked |-> FALSE, value |-> Some(gate_info(outcome))])

\* ===================================================================
\* Benchmark commands (ci_cmd.rs, bench/bench_cmd.rs, main.rs)
\* ===================================================================

\* The most circuits a command benchmarks.
MaxCiCircuits == 2

\* The circuit lists a command runs through: for ci the circuits of the
\* config that pass the CI filter, for run_all those of the config, each
\* without params.
CircuitLists == SeqsUpTo({"a", "b"}, MaxCiCircuits)

\* What full_benchmark may return for one circuit: an error, or a result
\* with the mean prove time and whether the proof verified. The backend
\* reports no gate count and no proof size.
BenchOutcomes ==
    {Err("full_benchmark failed")} \cup
    {Ok([mean_ms |-> m, verify_success |-> v]) :
        m \in {100, 130}, v \in BOOLEAN}

\* The baseline file of a ci run: None when no file is at the path,
\* otherwise what JsonlWriter::read_all makes of it (None when it cannot be
\* read or parsed).
CiBaselines ==
    {None, Some(None), Some(Some(<<>>))} \cup
    {Some(Some(<<rec>>)) : rec \in BenchRecords}

\* The inputs of ci_cmd::run: how loading the config goes, the filtered
\* circuits, the baseline, the threshold and whether --json-out is given.
CiInputs ==
    [name : {"ci"}, config : {"ok", "missing", "unreadable"},
     circuits : CircuitLists, baseline : CiBaselines,
     threshold : CompareThresholds, json_out : BOOLEAN]

\* The inputs of bench run and bench run-all.
BenchInputs ==
    [name : {"run", "run_all"}, config : {"ok", "unreadable"},
     circuits : CircuitLists, baseline : {None},
     threshold : {0}, json_out : {FALSE}]

NoCommand ==
    [name |-> "none", config |-> "ok", circuits |-> <<>>, baseline |-> None,
     threshold |-> 0, json_out |-> FALSE]

\* The BenchRecord that read_all parses from the line run_ci_benchmarks
\* writes for a successful circuit.
ci_record(circuit_name, avg_prove_ms) ==
    [circuit_name |-> circuit_name, prove_stats |-> Some([mean_ms |-> avg_prove_ms])]

\* The CiCircuitResult pushed for a circuit.
ci_circuit_result(circuit_name, outcome) ==
    IF ~outcome.ok
    THEN [circuit_name |-> circuit_name, prove_ms |-> 0, status |-> "failed"]
    ELSE [circuit_name |-> circuit_name, prove_ms |-> outcome.value.mean_ms,
          status |-> IF outcome.value.verify_success THEN "ok" ELSE "verify_failed"]

\* An exit code that ignores the comparison.
exit_code_of_zero(comp) == 0

\* `comparison.as_ref().map(|c| c.ci_exit_code).unwrap_or(0)`
exit_code_of(comp) == IF comp # None THEN comp[1].ci_exit_code ELSE 0

\* main: the process exits with the code ci_cmd::run returned in Ok, with 0
\* after Ok(()) of a bench command, and with 1 after an Err.
process_exit(result) == IF result.ok THEN result.value ELSE 1

InitCommands ==
    /\ cmd = NoCommand
    /\ cpc = "idle"
    /\ todo = <<>>
    /\ circuit_results = <<>>
    /\ out_file = <<>>
    /\ comparison = None
    /\ cret = None
    /\ exit_status = None
    /\ workflow_failed = FALSE

\* The command function returns `result` and main ends the process.
Return(result) ==
    /\ cret' = Some(result)
    /\ exit_status' = Some(process_exit(result))
    /\ cpc' = "done"

\* ci_cmd::run up to the loop of run_ci_benchmarks: load the config (an
\* unreadable one is an error, a missing one gives no circuits), create the
\* output file, filter the circuits.
CiStart(input, open_ok) ==
    /\ cpc = "idle"
    /\ cmd' = input
    /\ UNCHANGED <<circuit_results, out_file, comparison, workflow_failed>>
    /\ IF input.config = "unreadable"
       THEN Return(Err("failed to read config")) /\ todo' = <<>>
       ELSE IF ~open_ok
       THEN Return(Err("failed to create output file")) /\ todo' = <<>>
       ELSE /\ todo' = IF input.config = "missing" THEN <<>> ELSE input.circuits
            /\ cpc' = IF todo' = <<>> THEN "compare" ELSE "bench"
            /\ UNCHANGED <<cret, exit_status>>

\* One pass of the loop of run_ci_benchmarks: a failed full_benchmark pushes
\* a "failed" result and continues; a successful one writes its record (a
\* failed write is returned with `?`) and pushes its result.
CiBenchmark(outcome, write_ok) ==
    /\ cpc = "bench"
    /\ cmd.name = "ci"
    /\ todo' = Tail(todo)
    /\ workflow_failed' = (workflow_failed \/ ~outcome.ok)
    /\ UNCHANGED <<cmd, comparison>>
    /\ IF ~outcome.ok
       THEN /\ circuit_results' = Append(circuit_results,
                                         ci_circuit_result(Head(todo), outcome))
            /\ cpc' = IF todo' = <<>> THEN "compare" ELSE "bench"
            /\ UNCHANGED <<out_file, cret, exit_status>>
       ELSE IF ~write_ok
       THEN /\ Return(Err("failed to write record"))
            /\ UNCHANGED <<circuit_results, out_file>>
       ELSE /\ out_file' = Append(out_file,
                                  ci_record(Head(todo), outcome.value.mean_ms))
            /\ circuit_results' = Append(circuit_results,
                                         ci_circuit_result(Head(todo), outcome))
            /\ cpc' = IF todo' = <<>> THEN "compare" ELSE "bench"
            /\ UNCHANGED <<cret, exit_status>>

\* `let comparison = if baseline_path.exists() { match compare(..) { Ok(r) =>
\* Some(r), Err(_) => None } } else { None }`, the target being the output
\* file just written.
CiCompare ==
    /\ cpc = "compare"
    /\ comparison' =
           IF cmd.baseline = None THEN None
           ELSE LET compare_config ==
                        [baseline_file |-> Some(cmd.baseline[1]),
                         target_file |-> Some(Some(out_file)),
                         baseline_json |-> None, target_json |-> None,
                         threshold |-> cmd.threshold]
                    result == compare(compare_config)
                IN  IF result.ok THEN Some(result.value) ELSE None
    /\ cpc' = "report"
    /\ UNCHANGED <<cmd, todo, circuit_results, out_file, cret, exit_status,
                   workflow_failed>>

\* The rest of ci_cmd::run: write the regression report when --json-out is
\* given and there is a comparison (a failed write is returned with `?`),
\* print the results, return Ok(exit_code).
CiReport(write_ok) ==
    /\ cpc = "report"
    /\ UNCHANGED <<cmd, todo, circuit_results, out_file, comparison, workflow_failed>>
    /\ IF cmd.json_out /\ comparison # None /\ ~write_ok
       THEN Return(Err("failed to write regression report"))
       ELSE Return(Ok(exit_code_of(comparison)))

\* bench run and bench run-all up to the benchmark: load the config, find
\* the circuit (run), open the JSONL file.
BenchStart(input, open_ok) ==
    /\ cpc = "idle"
    /\ cmd' = input
    /\ UNCHANGED <<circuit_results, out_file, comparison, workflow_failed>>
    /\ IF input.config = "unreadable"
       THEN Return(Err("failed to read config")) /\ todo' = <<>>
       ELSE IF input.name = "run" /\ input.circuits = <<>>
       THEN Return(Err("circuit not found")) /\ todo' = <<>>
       ELSE IF ~open_ok
       THEN Return(Err("failed to open jsonl")) /\ todo' = <<>>
       ELSE IF input.name = "run_all" /\ input.circuits = <<>>
       THEN Return(Ok(0)) /\ todo' = <<>>
       ELSE /\ todo' = IF input.name = "run" THEN <<Head(input.circuits)>>
                       ELSE input.circuits
            /\ cpc' = "bench"
            /\ UNCHANGED <<cret, exit_status>>

\* bench run, and one pass of the loop of run_all:
\* `full_benchmark(..)?`, then the record is logged (`?` on a failed write).
BenchBenchmark(outcome, write_ok) ==
    /\ cpc = "bench"
    /\ cmd.name \in {"run", "run_all"}
    /\ todo' = Tail(todo)
    /\ workflow_failed' = (workflow_failed \/ ~outcome.ok)
    /\ UNCHANGED <<cmd, circuit_results, comparison>>
    /\ IF ~outcome.ok
       THEN Return(outcome) /\ UNCHANGED out_file
       ELSE IF ~write_ok
       THEN Return(Err("failed to write record")) /\ UNCHANGED out_file
       ELSE /\ out_file' = Append(out_file,
                                  ci_record(Head(todo), outcome.value.mean_ms))
            /\ IF todo' = <<>>
               THEN Return(Ok(0))
               ELSE cpc' = "bench" /\ UNCHANGED <<cret, exit_status>>

\* A command starts in a fresh process (cpc = "idle") and then runs alone.
NextCommands ==
    \/ /\ cpc = "idle"
       /\ \E input \in CiInputs, open_ok \in BOOLEAN :
              CiStart(input, open_ok) /\ UNCHANGED <<wfvars, rvars, dvars, repvars, cmpvars, svars, tsvars, gvars, bkvars>>
    \/ /\ cpc = "bench"
       /\ \E outcome \in BenchOutcomes, write_ok \in BOOLEAN :
              CiBenchmark(outcome, write_ok) /\ UNCHANGED <<wfvars, rvars, dvars, repvars, cmpvars, svars, tsvars, gvars, bkvars>>
    \/ CiCompare /\ UNCHANGED <<wfvars, rvars, dvars, repvars, cmpvars, svars, tsvars, gvars, bkvars>>
    \/ /\ cpc = "report"
       /\ \E write_ok \in BOOLEAN :
              CiReport(write_ok) /\ UNCHANGED <<wfvars, rvars, dvars, repvars, cmpvars, svars, tsvars, gvars, bkvars>>
    \/ /\ cpc = "idle"
       /\ \E input \in BenchInputs, open_ok \in BOOLEAN :
              BenchStart(input, open_ok) /\ UNCHANGED <<wfvars, rvars, dvars, repvars, cmpvars, svars, tsvars, gvars, bkvars>>
    \/ /\ cpc = "bench"
       /\ \E outcome \in BenchOutcomes, write_ok \in BOOLEAN :
              BenchBenchmark(outcome, write_ok) /\ UNCHANGED <<wfvars, rvars, dvars, repvars, cmpvars, svars, tsvars, gvars, bkvars>>

\* ===================================================================
\* Barretenberg backend: the files of prove and verify
\* (backend/barretenberg.rs)
\* ===================================================================

\* The most prove calls of a run (the iterations of the workflow loop).
MaxProves == 3

\* How `bb prove` may go under run_with_timeout, and the files it has
\* written into the output directory by then.
BbProveRuns ==
    [result : {"spawn_fails"}, written : {{}}]
    \cup
    [result : {"timed_out", "exit_failure", "exit_success"},
     written : SUBSET {"proof", "vk", "pk"}]

\* A path inside a temporary directory.
PathIn(dir, file) == [dir |-> dir, file |-> file]

\* `path.exists()` / `std::fs::metadata(&path).ok()` at the time of the call.
exists(files, path) == path \in files

\* `if path.exists() { Some(path) } else { None }`
path_if_exists(files, path) == IF exists(files, path) THEN Some(path) ELSE None

\* TempDir::drop: the directory and everything inside it is removed.
drop_tempdir(files, dir) == {f \in files : f.dir # dir}

\* What is on disk once prove has returned: `out_dir` goes out of scope at
\* every return of the function after its creation.
after_return(files, dir) == drop_tempdir(files, dir)

\* The ProveOutput built from the output directory (sizes read with
\* metadata, paths kept when the file exists).
prove_output(files, dir) ==
    [proof_size_bytes |-> IF exists(files, PathIn(dir, "proof")) THEN Some(10) ELSE None,
     verification_key_size_bytes |->
         IF exists(files, PathIn(dir, "vk")) THEN Some(30) ELSE None,
     proving_key_size_bytes |->
         IF exists(files, PathIn(dir, "pk")) THEN Some(20) ELSE None,
     proof_path |-> path_if_exists(files, PathIn(dir, "proof")),
     vk_path |-> path_if_exists(files, PathIn(dir, "vk"))]

InitBackend ==
    /\ bk_pc = "idle"
    /\ bk_proves = 0
    /\ out_dir = None
    /\ bb_run = None
    /\ disk = {}
    /\ prove_out = None
    /\ verify_in = None

\* prove up to the start of bb: the witness is required, then the temporary
\* output directory is created (a fresh one for each call).
ProveEnter(witness_given, tempdir_ok) ==
    /\ bk_pc = "idle"
    /\ bk_proves < MaxProves
    /\ bk_proves' = bk_proves + 1
    /\ UNCHANGED <<bb_run, disk, verify_in>>
    /\ IF ~witness_given
       THEN /\ prove_out' = Some(Err("BarretenbergBackend::prove requires a witness file"))
            /\ UNCHANGED <<bk_pc, out_dir>>
       ELSE IF ~tempdir_ok
       THEN /\ prove_out' = Some(Err("failed to create temp dir"))
            /\ UNCHANGED <<bk_pc, out_dir>>
       ELSE /\ out_dir' = Some(bk_proves')
            /\ bk_pc' = "bb"
            /\ prove_out' = None

\* `self.run_with_timeout(cmd, timeout)`: bb prove runs with `-o out_dir`.
ProveRunBb(run) ==
    /\ bk_pc = "bb"
    /\ bb_run' = Some(run)
    /\ disk' = disk \cup {PathIn(out_dir[1], f) : f \in run.written}
    /\ bk_pc' = "bb_done"
    /\ UNCHANGED <<bk_proves, out_dir, prove_out, verify_in>>

\* The rest of prove: the `?` of run_with_timeout, the exit status check,
\* the ProveOutput, and the return, at which out_dir is dropped.
ProveReturn ==
    /\ bk_pc = "bb_done"
    /\ prove_out' =
           Some(IF bb_run[1].result = "spawn_fails" THEN Err("failed to spawn bb")
                ELSE IF bb_run[1].result = "timed_out" THEN Err("operation timed out")
                ELSE IF bb_run[1].result = "exit_failure" THEN Err("bb prove failed")
                ELSE Ok(prove_output(disk, out_dir[1])))
    /\ disk' = after_return(disk, out_dir[1])
    /\ out_dir' = None
    /\ bb_run' = None
    /\ bk_pc' = "idle"
    /\ UNCHANGED <<bk_proves, verify_in>>

\* full_benchmark passes the proof and vk paths of the last ProveOutput to
\* verify, which runs `bb verify -p proof -k vk`: bb can succeed only when
\* it finds both files.
VerifyLast(bb_accepts) ==
    /\ bk_pc = "idle"
    /\ prove_out # None
    /\ prove_out[1].ok
    /\ prove_out[1].value.proof_path # None
    /\ prove_out[1].value.vk_path # None
    /\ LET proof == prove_out[1].value.proof_path[1]
           vk == prove_out[1].value.vk_path[1]
           present == exists(disk, proof) /\ exists(disk, vk)
       IN  verify_in' = Some([proof |-> proof, vk |-> vk, present |-> present,
                              success |-> present /\ bb_accepts])
    /\ bk_pc' = "verified"
    /\ UNCHANGED <<bk_proves, out_dir, bb_run, disk, prove_out>>

NextBackend ==
    \/ /\ bk_pc = "idle"
       /\ \E witness_given \in BOOLEAN, tempdir_ok \in BOOLEAN :
              ProveEnter(witness_given, tempdir_ok) /\ UNCHANGED <<wfvars, rvars, dvars, repvars, cmpvars, svars, tsvars, gvars, civars>>
    \/ /\ bk_pc = "bb"
       /\ \E run \in BbProveRuns :
              ProveRunBb(run) /\ UNCHANGED <<wfvars, rvars, dvars, repvars, cmpvars, svars, tsvars, gvars, civars>>
    \/ ProveReturn /\ UNCHANGED <<wfvars, rvars, dvars, repvars, cmpvars, svars, tsvars, gvars, civars>>
    \/ \E bb_accepts \in BOOLEAN :
           VerifyLast(bb_accepts) /\ UNCHANGED <<wfvars, rvars, dvars, repvars, cmpvars, svars, tsvars, gvars, civars>>

\* ===================================================================
\* Specifications
\* ===================================================================

InitAll == InitWorkflow /\ InitRunner /\ InitDelta /\ InitReport /\ InitCompare
           /\ InitStorage /\ InitTiming /\ InitGates /\ InitCommands
           /\ InitBackend

SpecWorkflow == InitAll /\ [][NextWorkflow]_vars

SpecRunner == InitAll /\ [][NextRunner]_vars

SpecDelta == InitAll /\ [][NextDelta]_vars

SpecReport == InitAll /\ [][NextReport]_vars

SpecCompare == InitAll /\ [][NextCompare]_vars

SpecStorage == InitAll /\ [][NextStorage]_vars

\* One call of from_samples is made in a behaviour.
NextTiming ==
    /\ ts_in = None
    /\ \E samples \in ShortSamples \cup LongSamples :
           FromSamples(samples) /\ UNCHANGED <<wfvars, rvars, dvars, repvars, cmpvars, svars, gvars, civars, bkvars>>

SpecTiming == InitAll /\ [][NextTiming]_vars

\* One gate-information call is made in a behaviour.
NextGates ==
    \/ /\ gi_in = None
       /\ \E gates \in 0..U64_MAX, build \in Builds :
              FromGates(gates, build) /\ UNCHANGED <<wfvars, rvars, dvars, repvars, cmpvars, svars, tsvars, civars, bkvars>>
    \/ /\ gi_in = None
       /\ \E outcome \in BbGatesOutcomes, build \in Builds :
              GateInfoFromBb(outcome, build) /\ UNCHANGED <<wfvars, rvars, dvars, repvars, cmpvars, svars, tsvars, civars, bkvars>>

SpecGates == InitAll /\ [][NextGates]_vars

SpecCommands == InitAll /\ [][NextCommands]_vars

SpecBackend == InitAll /\ [][NextBackend]_vars

\* ===================================================================
\* Properties
\* ===================================================================

\* ------------------------------------------------- workflow: properties

\* The calls of one collaborator operation, in call order.
CallsOf(op) == SelectSeq(calls, LAMBDA c : c.op = op)

FailedLoopCall(k) == calls[k].op \in {"gen_witness", "prove"} /\ calls[k].out = None

\* C1: a failed gen_witness or prove call, at any iteration, is the last
\* collaborator call of the run, and the workflow has returned the error: no
\* record is returned.
C1_FailureAbortsWorkflow ==
    \A k \in 1..Len(calls) :
        FailedLoopCall(k) => /\ k = Len(calls)
                             /\ pc = "done"
                             /\ ret = "err"

\* C1 witness: prove failed in a measured iteration that follows a warmup
\* iteration, and the run is over.
C1_Witness ==
    /\ pc = "done"
    /\ args.warmup >= 1
    /\ Len(calls) >= 1
    /\ calls[Len(calls)].op = "prove"
    /\ calls[Len(calls)].out = None
    /\ calls[Len(calls)].iter >= args.warmup

\* C2: a call with measured iterations = 0 has returned the validation
\* error and no collaborator was called.
C2_ZeroIterationsRejected ==
    (pc # "idle" /\ args.iterations = 0) =>
        /\ pc = "done"
        /\ ret = "err"
        /\ calls = <<>>

C2_Witness ==
    /\ pc = "done" /\ args.iterations = 0 /\ args.warmup > 0 /\ ret = "err"

\* The call of operation op made in iteration idx.
CallAt(op, idx) == CHOOSE c \in {calls[k] : k \in 1..Len(calls)} : c.op = op /\ c.iter = idx

\* C3: when no gen_witness or prove call failed and measured >= 1, the run
\* ends Ok with warmup+measured calls of each, the samples are those of the
\* iterations warmup.. in order, and the record counts `measured` samples
\* and carries the two counts in its config.
C3_IterationsAndSamples ==
    (pc = "done" /\ args.iterations >= 1
        /\ \A k \in 1..Len(calls) : ~FailedLoopCall(k)) =>
        LET w == args.warmup
            m == args.iterations
        IN  /\ ret = "ok"
            /\ Len(CallsOf("gen_witness")) = w + m
            /\ Len(CallsOf("prove")) = w + m
            /\ \A j \in 0..(w + m - 1) :
                   /\ CallsOf("gen_witness")[j + 1].iter = j
                   /\ CallsOf("prove")[j + 1].iter = j
            /\ witness_times = [j \in 1..m |-> CallAt("gen_witness", w + j - 1).out[1]]
            /\ prove_times = [j \in 1..m |-> CallAt("prove", w + j - 1).out[1].prove_time_ms]
            /\ record.prove_stats # None /\ record.prove_stats[1].iterations = m
            /\ record.witness_stats # None /\ record.witness_stats[1].iterations = m
            /\ record.warmup_iterations = w
            /\ record.measured_iterations = m

\* C3 witness: warmup 1 or more, two measured samples that differ.
C3_Witness ==
    /\ pc = "done" /\ ret = "ok"
    /\ args.warmup >= 1 /\ args.iterations = 2
    /\ Len(prove_times) = 2 /\ prove_times[1] # prove_times[2]
    /\ CallAt("prove", 0).out[1].prove_time_ms # prove_times[1]

\* ------------------------------------- workflow: gate count and verify

\* The loop of the running call has made all its gen_witness and prove calls
\* and none of them failed.
LoopCompleted ==
    /\ pc \in {"gate_info", "verify", "done"}
    /\ args.iterations >= 1
    /\ \A k \in 1..Len(calls) : ~FailedLoopCall(k)

\* The ProveOutput of the final iteration, index warmup + measured - 1.
FinalProveOutput == CallAt("prove", args.warmup + args.iterations - 1).out[1]

\* Backend.verify can be called: the backend can verify and the final
\* iteration's ProveOutput has a proof path and a vk path.
VerifyPossible ==
    /\ capabilities[1].can_verify
    /\ FinalProveOutput.proof_path # None
    /\ FinalProveOutput.vk_path # None

\* C13: full_benchmark calls Backend.verify at most once; when it has
\* returned, verify was called exactly when the backend can verify and the
\* final ProveOutput has both paths, otherwise verify_status is
\* SkippedUnsupported (cannot verify) or SkippedMissingArtifacts; and the
\* result is Ok whatever verify returned.
C13_VerifyOnceWhenPossible ==
    /\ Len(CallsOf("verify")) <= 1
    /\ (LoopCompleted /\ pc = "done" /\ args.entry = "full_benchmark") =>
           /\ ret = "ok"
           /\ Len(CallsOf("verify")) = 1 <=> VerifyPossible
           /\ VerifyPossible => status.verify_status \in {"Ok", "Failed"}
           /\ ~VerifyPossible =>
                  status.verify_status =
                      IF ~capabilities[1].can_verify THEN "SkippedUnsupported"
                      ELSE "SkippedMissingArtifacts"

\* C13 witness: verify was called and returned an error; full_benchmark
\* returned Ok with verify_status Failed.
C13_Witness ==
    /\ pc = "done" /\ ret = "ok" /\ args.entry = "full_benchmark"
    /\ Len(CallsOf("verify")) = 1
    /\ CallsOf("verify")[1].out = None
    /\ status.verify_status = "Failed"
    /\ ~status.verify_success

\* C14: once full_benchmark is past the gate step, gate_info was called iff
\* has_gate_count; not called means SkippedUnsupported; a gate_info error
\* gives GateInfoStatus::Failed with total_gates, acir_opcodes and
\* subgroup_size unset, the verify step is still taken, and the result is Ok.
C14_GateInfoNonFatal ==
    (LoopCompleted /\ pc \in {"verify", "done"} /\ args.entry = "full_benchmark") =>
        LET gate_calls == CallsOf("gate_info")
        IN  /\ Len(gate_calls) = (IF capabilities[1].has_gate_count THEN 1 ELSE 0)
            /\ ~capabilities[1].has_gate_count =>
                   status.gate_info_status = "SkippedUnsupported"
            /\ (Len(gate_calls) = 1 /\ gate_calls[1].out = None) =>
                   /\ status.gate_info_status = "Failed"
                   /\ record.total_gates = None
                   /\ record.acir_opcodes = None
                   /\ record.subgroup_size = None
                   /\ status.constraints = None
                   /\ pc = "verify" <=> VerifyPossible /\ CallsOf("verify") = <<>>
                   /\ pc = "done" =>
                          /\ ret = "ok"
                          /\ status.verify_status # "Unset"
                          /\ Len(CallsOf("verify")) = 1 <=> VerifyPossible

\* C14 witness: gate_info returned an error, verify was then called and
\* succeeded, and full_benchmark returned Ok with gate status Failed.
C14_Witness ==
    /\ pc = "done" /\ ret = "ok" /\ args.entry = "full_benchmark"
    /\ Len(CallsOf("gate_info")) = 1
    /\ CallsOf("gate_info")[1].out = None
    /\ status.gate_info_status = "Failed"
    /\ Len(CallsOf("verify")) = 1
    /\ status.verify_status = "Ok"

\* C15: the sizes of the record, the proof and vk paths of the result and
\* the paths passed to verify are those of the final iteration's
\* ProveOutput.
C15_SizesFromLastIteration ==
    (LoopCompleted /\ pc \in {"verify", "done"}) =>
        /\ record.proof_size_bytes = FinalProveOutput.proof_size_bytes
        /\ record.proving_key_size_bytes = FinalProveOutput.proving_key_size_bytes
        /\ record.verification_key_size_bytes =
               FinalProveOutput.verification_key_size_bytes
        /\ args.entry = "full_benchmark" =>
               /\ status.proof_path = FinalProveOutput.proof_path
               /\ status.vk_path = FinalProveOutput.vk_path
               /\ \A k \in 1..Len(calls) :
                      calls[k].op = "verify" =>
                          calls[k].arg = Some([proof |-> FinalProveOutput.proof_path[1],
                                               vk |-> FinalProveOutput.vk_path[1]])

\* C15 witness: the first iteration's ProveOutput has other sizes and no vk
\* path; the final one has both paths, and verify was called with them.
C15_Witness ==
    /\ pc = "done" /\ ret = "ok" /\ args.entry = "full_benchmark"
    /\ args.warmup + args.iterations >= 2
    /\ CallAt("prove", 0).out[1].proof_size_bytes = Some(11)
    /\ CallAt("prove", 0).out[1].vk_path = None
    /\ record.proof_size_bytes = Some(10)
    /\ Len(CallsOf("verify")) = 1
    /\ CallsOf("verify")[1].arg = Some([proof |-> "proofA", vk |-> "vkA"])

\* --------------------------------------------------- runner: properties

\* C4: with a timeout above zero, the runner does not go back to sleep once
\* the elapsed time has reached the timeout: at that poll a child still
\* running is killed and the timeout error returned.
C4_TimeoutEnforcedAtDeadline ==
    /\ (rpc = "sleep" /\ timeout_ms > 0 /\ child.state = "running")
           => elapsed_ms < timeout_ms
    /\ rret.kind = "Timeout" => child.state = "killed"

\* C20: with a timeout of zero run_with_timeout never kills the child and
\* never returns the timeout error; it returns a result only when a poll
\* finds the child exited, and the result carries the child's exit code and
\* the time elapsed at that poll. Its only other returns are the errors of
\* spawn and try_wait.
C20_ZeroTimeoutNeverKills ==
    (rpc # "idle" /\ timeout_ms = 0) =>
        /\ rret.kind # "Timeout"
        /\ child.state # "killed"
        /\ rpc = "done" => rret.kind \in {"Ok", "SpawnError", "WaitError"}
        /\ rret.kind = "Ok" =>
               /\ child.state = "reaped"
               /\ rret.code = child.code
               /\ rret.elapsed_ms = elapsed_ms

\* C20 witness: with timeout zero the child ran for more than a second, then
\* exited with code 1, and the runner returned that code and the time.
C20_Witness ==
    /\ timeout_ms = 0
    /\ rpc = "done"
    /\ rret.kind = "Ok"
    /\ rret.code = 1
    /\ rret.elapsed_ms >= 1100
    /\ child.state = "reaped"

\* ------------------------------------------- classification: properties

\* The status names of compare_values, in the vocabulary of the report
\* (to_regression_report, lines 341-345).
AsRegressionStatus(st) ==
    CASE st = "Regression" -> "ExceededThreshold"
      [] st = "Improvement" -> "Improved"
      [] st = "Unchanged" -> "Ok"

\* What delta_abs and delta_pct must be: target - baseline, and for a nonzero
\* baseline the quotient delta_abs*100/baseline (compared by cross
\* multiplication).
DeltaValuesAsClaimed(in, abs, pct) ==
    /\ abs = in.target - in.baseline
    /\ in.baseline # 0 => pct.num * in.baseline = (in.target - in.baseline) * 100 * pct.den

\* The classification exactly as C5 words it: two independent "iff"s.
StatusAsClaimed(in, pct, st) ==
    IF in.higher_is_worse
    THEN /\ (st = "ExceededThreshold") <=> QGt(pct, in.threshold)
         /\ (st = "Improved") <=> QLt(pct, 0 - in.threshold)
         /\ (st = "Ok") <=> (~QGt(pct, in.threshold) /\ ~QLt(pct, 0 - in.threshold))
    ELSE st = "Ok"

\* The classification with the order of the two tests made explicit.
StatusInOrder(in, pct, st) ==
    IF in.higher_is_worse
    THEN /\ (st = "ExceededThreshold") <=> QGt(pct, in.threshold)
         /\ (st = "Improved") <=> (~QGt(pct, in.threshold) /\ QLt(pct, 0 - in.threshold))
         /\ (st = "Ok") <=> (~QGt(pct, in.threshold) /\ ~QLt(pct, 0 - in.threshold))
    ELSE st = "Ok"

\* C5 as stated: delta_abs = target - baseline, delta_pct = delta_abs*100 /
\* baseline for a nonzero baseline, and for a higher_is_worse metric
\* ExceededThreshold iff delta_pct > threshold, Improved iff delta_pct <
\* -threshold, Ok otherwise; always Ok when higher_is_worse is false. The
\* same for compare_values.
C5_AsStated ==
    delta_out # None =>
        LET in == delta_in[1]
            r == delta_out[1].report
            c == delta_out[1].compare
        IN  /\ DeltaValuesAsClaimed(in, r.delta_abs, r.delta_pct)
            /\ DeltaValuesAsClaimed(in, c.delta, c.percent)
            /\ StatusAsClaimed(in, r.delta_pct, r.status)
            /\ StatusAsClaimed(in, c.percent, AsRegressionStatus(c.status))

\* C5 amended: as C5, with Improved iff delta_pct < -threshold and not
\* delta_pct > threshold (the ExceededThreshold test is made first, which
\* matters when the threshold is negative).
C5_DeltaStatus ==
    delta_out # None =>
        LET in == delta_in[1]
            r == delta_out[1].report
            c == delta_out[1].compare
        IN  /\ DeltaValuesAsClaimed(in, r.delta_abs, r.delta_pct)
            /\ DeltaValuesAsClaimed(in, c.delta, c.percent)
            /\ StatusInOrder(in, r.delta_pct, r.status)
            /\ StatusInOrder(in, c.percent, AsRegressionStatus(c.status))

\* C5 witness: a higher_is_worse metric whose delta is exactly +threshold
\* (10 -> 11 at 10 %) was classified, and is Ok.
C5_Witness ==
    /\ delta_out # None
    /\ delta_in[1] = [baseline |-> 10, target |-> 11, threshold |-> 10,
                      higher_is_worse |-> TRUE]
    /\ delta_out[1].report.status = "Ok"
    /\ delta_out[1].compare.status = "Unchanged"

\* C10 as stated: a zero baseline gives delta_pct = 0 and status Ok for
\* every target and every threshold.
C10_AsStated ==
    (delta_out # None /\ delta_in[1].baseline = 0) =>
        /\ delta_out[1].report.delta_pct.num = 0
        /\ delta_out[1].report.status = "Ok"
        /\ delta_out[1].compare.percent.num = 0
        /\ delta_out[1].compare.status = "Unchanged"

\* C10 amended: a zero baseline gives delta_pct = 0 for every target and
\* threshold, and status Ok for every target and every threshold >= 0.
C10_ZeroBaseline ==
    (delta_out # None /\ delta_in[1].baseline = 0) =>
        /\ delta_out[1].report.delta_pct.num = 0
        /\ delta_out[1].compare.percent.num = 0
        /\ delta_in[1].threshold >= 0 =>
              /\ delta_out[1].report.status = "Ok"
              /\ delta_out[1].compare.status = "Unchanged"

\* C10 witness: baseline 0 and a large target at threshold 10 was classified.
C10_Witness ==
    /\ delta_out # None
    /\ delta_in[1] = [baseline |-> 0, target |-> MaxValue, threshold |-> 10,
                      higher_is_worse |-> TRUE]
    /\ delta_out[1].report.status = "Ok"

\* --------------------------------------------------- report: properties

\* The statuses of all metrics of all circuits of the report.
ReportHasMetric(S) ==
    \E c \in 1..Len(report.circuits) :
        \E k \in 1..Len(report.circuits[c].metrics) :
            report.circuits[c].metrics[k].status \in S

\* C6: right after finalize(), ci_exit_code is 1 iff some metric of some
\* circuit of the report is ExceededThreshold or Error, and 0 otherwise.
C6_ExitCodeAfterFinalize ==
    last_op = "finalize" =>
        /\ report.summary.ci_exit_code \in {0, 1}
        /\ report.summary.ci_exit_code = 1 <=>
              ReportHasMetric({"ExceededThreshold", "Error"})

\* C6 witness: a finalized report of two circuits whose only failing metric
\* is an Error, beside a MissingBaseline metric; its exit code is 1.
C6_Witness ==
    /\ last_op = "finalize"
    /\ Len(report.circuits) = 2
    /\ ReportHasMetric({"Error"})
    /\ ReportHasMetric({"MissingBaseline"})
    /\ ~ReportHasMetric({"ExceededThreshold"})
    /\ report.summary.ci_exit_code = 1

\* ------------------------------------------------- comparator: properties

\* A comparison of two JSONL files, both read, has been run.
JsonlCompared ==
    /\ cmp_in # None
    /\ cmp_in[1].baseline_file # None /\ cmp_in[1].target_file # None
    /\ cmp_in[1].baseline_file[1] # None /\ cmp_in[1].target_file[1] # None

\* A comparison of two single JSON reports, both read, has been run.
JsonCompared ==
    /\ cmp_in # None
    /\ cmp_in[1].baseline_file = None \/ cmp_in[1].target_file = None
    /\ cmp_in[1].baseline_json # None /\ cmp_in[1].target_json # None
    /\ cmp_in[1].baseline_json[1] # None /\ cmp_in[1].target_json[1] # None

\* The target record at position k of the JSONL target file has a circuit
\* name that no record of the baseline file has.
Unmatched(k) ==
    LET baseline_records == cmp_in[1].baseline_file[1][1]
        target_records == cmp_in[1].target_file[1][1]
    IN  \A j \in 1..Len(baseline_records) :
            baseline_records[j].circuit_name # target_records[k].circuit_name

\* C7: comparing two record sets succeeds, and every target record whose
\* circuit_name no baseline record has gets a circuit entry in the
\* CompareResult and in the RegressionReport, with status MissingBaseline.
C7_UnmatchedTargetIsMissingBaseline ==
    JsonlCompared =>
        LET target_records == cmp_in[1].target_file[1][1]
            result == cmp_out[1].result
            rep == cmp_out[1].report
        IN  /\ result.ok
            /\ Len(result.value.circuits) = Len(target_records)
            /\ Len(rep[1].circuits) = Len(target_records)
            /\ \A k \in 1..Len(target_records) :
                   Unmatched(k) =>
                       /\ result.value.circuits[k].circuit_name =
                              target_records[k].circuit_name
                       /\ rep[1].circuits[k].circuit_name =
                              target_records[k].circuit_name
                       /\ rep[1].circuits[k].status = "MissingBaseline"

\* The pairs of JSON values handed to compare_values, one per circuit of the
\* result, in the order of the result's circuits.
ComparedPairs ==
    IF JsonlCompared
    THEN LET baseline_records == cmp_in[1].baseline_file[1][1]
             target_records == cmp_in[1].target_file[1][1]
         IN  [k \in 1..Len(target_records) |->
                [baseline |-> IF Unmatched(k) THEN JNull
                              ELSE baseline_map_of(baseline_records)[
                                       target_records[k].circuit_name],
                 target |-> to_value(target_records[k])]]
    ELSE << [baseline |-> cmp_in[1].baseline_json[1][1],
             target |-> cmp_in[1].target_json[1][1]] >>

\* Entry k of METRIC_DEFS is found, as a number, in both values of the pair.
Matches(k, pair) ==
    /\ get_nested_num(pair.baseline, METRIC_DEFS[k].json_path) # None
    /\ get_nested_num(pair.target, METRIC_DEFS[k].json_path) # None

\* The first entry of METRIC_DEFS, in table order, that has the canonical
\* name and matches the pair (a set of at most one index).
FirstMatch(name, pair) ==
    {k \in 1..Len(METRIC_DEFS) :
        /\ METRIC_DEFS[k].display_name = name
        /\ Matches(k, pair)
        /\ \A j \in 1..(k - 1) :
               METRIC_DEFS[j].display_name = name => ~Matches(j, pair)}

\* C8: compare_values emits at most one metric per canonical name; each
\* emitted metric carries the values of the first METRIC_DEFS entry of its
\* canonical name that matches both records, every canonical name with a
\* matching entry is emitted, and a pair that carries prove_time_ms and
\* prove_stats.mean_ms on both sides yields exactly one prove_ms metric.
C8_OneMetricPerCanonicalName ==
    (JsonlCompared \/ JsonCompared) =>
        \A c \in 1..Len(cmp_out[1].result.value.circuits) :
            LET metrics == cmp_out[1].result.value.circuits[c].metrics
                pair == ComparedPairs[c]
            IN  /\ \A m, n \in 1..Len(metrics) :
                       metrics[m].metric = metrics[n].metric => m = n
                /\ \A m \in 1..Len(metrics) :
                       \E k \in FirstMatch(metrics[m].metric, pair) :
                           /\ metrics[m].baseline =
                                  get_nested_num(pair.baseline, METRIC_DEFS[k].json_path)[1]
                           /\ metrics[m].target =
                                  get_nested_num(pair.target, METRIC_DEFS[k].json_path)[1]
                /\ \A k \in 1..Len(METRIC_DEFS) :
                       Matches(k, pair) =>
                           \E m \in 1..Len(metrics) :
                               metrics[m].metric = METRIC_DEFS[k].display_name
                /\ (Matches(1, pair) /\ Matches(2, pair)) =>
                       Cardinality({m \in 1..Len(metrics) :
                                       metrics[m].metric = "prove_ms"}) = 1

\* C8 witness: both reports carry prove_time_ms and prove_stats.mean_ms, with
\* four different pairings of values; the one prove_ms metric emitted is the
\* one of prove_time_ms, the first entry of the table.
C8_Witness ==
    /\ JsonCompared
    /\ LET pair == ComparedPairs[1]
           metrics == cmp_out[1].result.value.circuits[1].metrics
       IN  /\ get_nested_num(pair.baseline, <<"prove_time_ms">>) = Some(100)
           /\ get_nested_num(pair.baseline, <<"prove_stats", "mean_ms">>) = Some(130)
           /\ get_nested_num(pair.target, <<"prove_time_ms">>) = Some(120)
           /\ get_nested_num(pair.target, <<"prove_stats", "mean_ms">>) = Some(100)
           /\ Len(metrics) = 1
           /\ metrics[1].metric = "prove_ms"
           /\ metrics[1].baseline = 100 /\ metrics[1].target = 120

\* The metrics hold a prove_ms entry with these baseline and target values.
HasProveMs(metrics, bv, tv) ==
    \E m \in 1..Len(metrics) :
        /\ metrics[m].metric = "prove_ms"
        /\ metrics[m].baseline = bv /\ metrics[m].target = tv

\* C9: when one report carries the prove time only as the flat prove_time_ms
\* and the other only as the nested prove_stats.mean_ms, compare_values
\* emits a prove_ms entry whose baseline value is the baseline report's
\* and whose target value is the target report's.
C9_CrossAliasCompared ==
    JsonCompared =>
        LET pair == ComparedPairs[1]
            metrics == cmp_out[1].result.value.circuits[1].metrics
            bflat == get_nested_num(pair.baseline, <<"prove_time_ms">>)
            bnested == get_nested_num(pair.baseline, <<"prove_stats", "mean_ms">>)
            tflat == get_nested_num(pair.target, <<"prove_time_ms">>)
            tnested == get_nested_num(pair.target, <<"prove_stats", "mean_ms">>)
        IN  /\ (bflat # None /\ bnested = None /\ tflat = None /\ tnested # None)
                   => HasProveMs(metrics, bflat[1], tnested[1])
            /\ (bflat = None /\ bnested # None /\ tflat # None /\ tnested = None)
                   => HasProveMs(metrics, bnested[1], tflat[1])

\* Some metric of the CircuitRegression c has status st.
CircuitHasMetric(c, st) ==
    \E k \in 1..Len(c.metrics) : c.metrics[k].status = st

MetricsWithStatus(S) ==
    Cardinality({ck \in UNION {{<<c, k>> : k \in 1..Len(report.circuits[c].metrics)} :
                                  c \in 1..Len(report.circuits)} :
                    report.circuits[ck[1]].metrics[ck[2]].status \in S})

\* The number of circuits of the report with a metric of status st.
CircuitsWithMetric(st) ==
    Cardinality({c \in 1..Len(report.circuits) :
                    CircuitHasMetric(report.circuits[c], st)})

LinesIn(f) == IF f.file = None THEN <<>> ELSE lines_of(f.file[1])

\* C16: an append of a record whose schema_version is not SCHEMA_VERSION
\* returns the 'schema version mismatch' error and leaves the store as it
\* was: no line written, file and parent directory not created. An append
\* of a record with the matching version that returns Ok has added, to a
\* file whose earlier writes were complete, exactly one line: the record's.
C16_SchemaVersionChecked ==
    sop.op = "append" =>
        /\ sop.rec.schema_version # SCHEMA_VERSION =>
               /\ ~sret.ok
               /\ sret.error = "schema version mismatch"
               /\ fs = sop.before
        /\ sret.ok =>
               /\ sop.rec.schema_version = SCHEMA_VERSION
               /\ fs.file # None /\ fs.dir
               /\ Len(fs.file[1].lines) = Len(LinesIn(sop.before)) +
                      (IF sop.before.file # None /\ sop.before.file[1].tail
                       THEN 0 ELSE 1)
               /\ ~torn_write =>
                      fs.file[1] =
                          [lines |-> Append(LinesIn(sop.before),
                                            JsonLine(to_string(sop.rec))),
                           tail |-> FALSE]

\* C16 witness: a record of another schema version was handed to append
\* when neither the file nor its parent directory existed; neither exists
\* afterwards, and the error is the mismatch.
C16_Witness ==
    /\ sop.op = "append"
    /\ sop.rec.schema_version = SCHEMA_VERSION + 1
    /\ sop.io = "ok"
    /\ ~sop.before.dir /\ sop.before.file = None
    /\ ~fs.dir /\ fs.file = None
    /\ ~sret.ok /\ sret.error = "schema version mismatch"

\* C17: as long as no write was cut short, the file holds exactly the
\* records of the append calls that returned Ok, in the order of those
\* calls: read_all returns them and count returns their number, whichever
\* writer instance is used and whatever calls were rejected in between.
C17_ReadBackInOrder ==
    ~torn_write =>
        /\ fs.file = None => appended = <<>>
        /\ fs.file # None =>
               /\ read_all(fs) = Ok(appended)
               /\ count(fs) = Ok(Len(appended))
        /\ sop.op = "read_all" =>
               sret = IF fs.file = None THEN Err("file not found") ELSE Ok(appended)
        /\ sop.op = "count" => sret = Ok(Len(appended))

\* C17 witness: read_all has returned two different records in the order of
\* their appends, after three append calls of which one was rejected.
C17_Witness ==
    /\ sop.op = "read_all"
    /\ n_appends = 3
    /\ Len(appended) = 2
    /\ appended[1] # appended[2]
    /\ appended[1].prove_stats # None
    /\ sret = Ok(appended)

\* ------------------------------------------- timing statistics: properties

\* s is in ascending order and holds each value as often as t does.
SortedPermutationOf(s, t) ==
    /\ Len(s) = Len(t)
    /\ \A k \in 1..(Len(s) - 1) : s[k] <= s[k + 1]
    /\ \A k \in 1..Len(t) :
           Cardinality({j \in 1..Len(s) : s[j] = t[k]}) =
           Cardinality({j \in 1..Len(t) : t[j] = t[k]})

\* The least whole number that is at least 95/100 of n.
Ceil95Of(n) == CHOOSE c \in 0..n : 100 * c >= 95 * n /\ 100 * (c - 1) < 95 * n

\* The sum over the samples of (n*x - total)^2.
SquaresOf(t, total) ==
    LET sq(k) == (Len(t) * t[k] - total) * (Len(t) * t[k] - total)
        RECURSIVE upto(_)
        upto(k) == IF k = 0 THEN 0 ELSE sq(k) + upto(k - 1)
    IN  upto(Len(t))

\* C18: for n >= 1 samples from_samples returns iterations = n, mean =
\* sum/n, the smallest and the largest sample as min and max, the population
\* variance sum((x - mean)^2)/n under the square root, the median of the
\* sorted samples (middle element, or the mean of the two middle ones for
\* even n) and as p95 the sorted sample at index
\* clamp(ceil(0.95 n) - 1, 0, n - 1).
C18_StatsOfSamples ==
    (ts_in # None /\ Len(ts_in[1]) >= 1) =>
        LET t == ts_in[1]
            n == Len(t)
            out == ts_out[1]
            total == SumSeq(t)
            s == sort_samples(t)
            idx == IF Ceil95Of(n) - 1 < 0 THEN 0
                   ELSE IF Ceil95Of(n) - 1 > n - 1 THEN n - 1
                   ELSE Ceil95Of(n) - 1
        IN  /\ out.iterations = n
            /\ out.mean_ms.num * n = total * out.mean_ms.den
            /\ \E k \in 1..n : t[k] = out.min_ms
            /\ \A k \in 1..n : out.min_ms <= t[k]
            /\ \E k \in 1..n : t[k] = out.max_ms
            /\ \A k \in 1..n : out.max_ms >= t[k]
            /\ SortedPermutationOf(s, t)
            /\ out.stddev_ms # None
            /\ out.stddev_ms[1].sqrt_of = [num |-> SquaresOf(t, total), den |-> n * n * n]
            /\ out.median_ms # None
            /\ n % 2 = 1 =>
                   out.median_ms[1].num = s[(n + 1) \div 2] * out.median_ms[1].den
            /\ n % 2 = 0 =>
                   2 * out.median_ms[1].num =
                       (s[n \div 2] + s[n \div 2 + 1]) * out.median_ms[1].den
            /\ out.p95_ms = Some(s[idx + 1])

\* C18 witness: from 20 samples in descending order the p95 is the 19th of
\* the sorted samples, not the largest, and the median lies between the two
\* middle ones.
C18_Witness ==
    /\ ts_in # None
    /\ Len(ts_in[1]) = 20
    /\ ts_in[1][1] = 20
    /\ ts_out[1].p95_ms = Some(19)
    /\ ts_out[1].max_ms = 20
    /\ ts_out[1].median_ms = Some([num |-> 21, den |-> 2])

\* C19: for no samples from_samples returns iterations 0, mean 0, min 0,
\* max 0 and None for median, stddev and p95.
C19_EmptySamples ==
    (ts_in # None /\ ts_in[1] = <<>>) =>
        /\ ts_out # None
        /\ ts_out[1].iterations = 0
        /\ ts_out[1].mean_ms.num = 0
        /\ ts_out[1].min_ms = 0
        /\ ts_out[1].max_ms = 0
        /\ ts_out[1].median_ms = None
        /\ ts_out[1].stddev_ms = None
        /\ ts_out[1].p95_ms = None

\* C19 witness: from_samples was called with no samples and returned.
C19_Witness ==
    /\ ts_in = Some(<<>>)
    /\ ts_out # None
    /\ ts_out[1].iterations = 0
    /\ ts_out[1].p95_ms = None

\* ------------------------------------------------------------- gate information

\* The call reached the computation of subgroup_size (gate_info returns an
\* error before it when `bb gates` gave no usable report).
SubgroupComputed ==
    /\ gi_out # None
    /\ \/ gi_out[1].panicked
       \/ gi_out[1].value[1].ok

IsPowerOfTwo(p) == \E k \in 0..U64_BITS : p = 2^k

\* What the claim requires of a returned GateInfo for gate count g.
SubgroupAsClaimed(info, g) ==
    /\ info.backend_gates = g
    /\ g = 0 => info.subgroup_size = None
    /\ g > 0 => /\ info.subgroup_size # None
                /\ IsPowerOfTwo(info.subgroup_size[1])
                /\ g <= info.subgroup_size[1]
                /\ info.subgroup_size[1] < 2 * g

\* C21: from_gates(g) and gate_info set subgroup_size = None when the gate
\* count g is 0 and otherwise Some(p), p the smallest power of two >= g
\* (p a power of two, g <= p < 2g), for every g of the unsigned type.
C21_SubgroupSizeIsNextPowerOfTwo ==
    SubgroupComputed =>
        /\ ~gi_out[1].panicked
        /\ SubgroupAsClaimed(gi_out[1].value[1].value, gi_in[1].gates)

\* The same requirement for the gate counts whose next power of two fits
\* the type (g <= 2^(bits-1)).
C21_HoldsWhenRepresentable ==
    (SubgroupComputed /\ gi_in[1].gates <= 2^(U64_BITS - 1)) =>
        /\ ~gi_out[1].panicked
        /\ SubgroupAsClaimed(gi_out[1].value[1].value, gi_in[1].gates)

\* Both calls were made on 17 gates and answered Some(32), and on 0 gates.
C21_SeenSeventeen ==
    /\ SubgroupComputed
    /\ gi_in[1].gates = 17
    /\ ~gi_out[1].panicked
    /\ gi_out[1].value[1].value.subgroup_size = Some(32)

\* ------------------------------------------------------------- benchmark commands

\* The ci command has ended and its comparison ran.
CiComparisonRan ==
    /\ cmd.name = "ci"
    /\ cpc = "done"
    /\ comparison # None

\* The comparison found a metric of some circuit regressed.
DetectedRegression ==
    \E c \in 1..Len(comparison[1].circuits) :
        \E k \in 1..Len(comparison[1].circuits[c].metrics) :
            comparison[1].circuits[c].metrics[k].status = "Regression"

C22_WitnessClean ==
    /\ CiComparisonRan
    /\ ~DetectedRegression
    /\ Len(comparison[1].circuits) > 0
    /\ cret = Some(Ok(0))

\* A command has ended after one of its full_benchmark calls returned Err.
EndedAfterWorkflowFailure ==
    /\ cpc = "done"
    /\ workflow_failed

\* C25: when full_benchmark fails for a circuit, the command that ran it
\* (bench run, bench run-all, ci) ends with a nonzero exit code, whatever
\* the other circuits and the baseline comparison give.
C25_WorkflowFailureExitsNonzero ==
    EndedAfterWorkflowFailure => exit_status # Some(0)

\* The same for the bench commands alone.
C25_BenchCommandsExitNonzero ==
    (EndedAfterWorkflowFailure /\ cmd.name \in {"run", "run_all"}) =>
        exit_status = Some(1)

\* ------------------------------------------------------------- workflow: call order

\* The loop calls of a full_benchmark run: the 2 * (warmup + measured) log
\* entries after the version entry.
LoopCallCount == 2 * (args.warmup + args.iterations)

\* C23: the collaborator calls of one full_benchmark run are, in order,
\* gen_witness and prove alternating for iterations 0 .. warmup+measured-1,
\* then gate_info (if supported), then verify (if applicable): gate_info and
\* verify come only after all warmup+measured proves have returned, nothing
\* follows verify, and a run that returned Ok made every loop call.
C23_CallOrder ==
    args.entry = "full_benchmark" =>
        /\ \A k \in 1..Len(calls) :
               LET c == calls[k]
                   j == k - 1
               IN  /\ (k = 1) <=> (c.op = "version")
                   /\ (k > 1 /\ j <= LoopCallCount) =>
                          /\ c.op = (IF j % 2 = 1 THEN "gen_witness" ELSE "prove")
                          /\ c.iter = (j - 1) \div 2
                   /\ j > LoopCallCount =>
                          /\ c.op \in {"gate_info", "verify"}
                          /\ \A m \in 2..(LoopCallCount + 1) : calls[m].out # None
                   /\ c.op = "gate_info" => j = LoopCallCount + 1
                   /\ c.op = "verify" => k = Len(calls)
        /\ ret = "ok" =>
               Len(calls) = 1 + LoopCallCount
                            + (IF capabilities[1].has_gate_count THEN 1 ELSE 0)
                            + (IF VerifyPossible THEN 1 ELSE 0)

\* C23 witness: a run with one warmup and two measured iterations made its
\* six loop calls, then gate_info, then verify, and returned.
C23_Witness ==
    /\ args.entry = "full_benchmark" /\ pc = "done" /\ ret = "ok"
    /\ args.warmup = 1 /\ args.iterations = 2
    /\ Len(calls) = 9
    /\ calls[8].op = "gate_info"
    /\ calls[9].op = "verify"

\* ------------------------------------------------------------- workflow: witness file

\* C24: the transient witness file written by gen_witness is gone before the
\* next iteration's gen_witness begins (the workflow is back at the head of
\* the loop or past it) and before the workflow returns, with a record or
\* with an error.
C24_WitnessFileDeleted ==
    pc \in {"loop", "gate_info", "verify", "done"} => ~witness_file

\* The same for the runs in which no prove call failed.
C24_DeletedUnlessProveFailed ==
    (pc \in {"loop", "gate_info", "verify", "done"} /\ witness_file) =>
        /\ pc = "done"
        /\ ret = "err"
        /\ calls[Len(calls)].op = "prove"
        /\ calls[Len(calls)].out = None

\* ------------------------------------------------------------- report lifecycle

\* A step of add_circuit: the circuits list grows by the circuit added, and
\* nothing but the list and the tallies of the summary changes.
AddCircuitStep ==
    /\ Len(report'.circuits) = Len(report.circuits) + 1
    /\ SubSeq(report'.circuits, 1, Len(report.circuits)) = report.circuits
    /\ report'.summary.ci_exit_code = report.summary.ci_exit_code
    /\ report'.version = report.version
    /\ report'.metadata = report.metadata
    /\ report'.version_mismatches = report.version_mismatches

\* A step of finalize: nothing but summary.ci_exit_code changes, and a second
\* finalize would change nothing.
FinalizeStep ==
    /\ report' = [report EXCEPT !.summary.ci_exit_code = report'.summary.ci_exit_code]
    /\ finalize(report') = report'

\* C26: a fresh report has ci_exit_code 0; add_circuit changes only the
\* circuits list and the summary tallies and never ci_exit_code (so it is
\* still 0 when nothing was finalized, and still the last finalize's value
\* after a regression is added); finalize changes only ci_exit_code and is
\* idempotent.
C26_TwoPhaseLifecycle ==
    /\ report.summary.ci_exit_code = 0
    /\ [][/\ last_op' = "add_circuit" => AddCircuitStep
          /\ last_op' = "finalize" => FinalizeStep
          /\ (~finalized /\ ~finalized') => report'.summary.ci_exit_code = 0]_vars

\* C26 witness: a report was finalized with exit code 0, then a circuit with
\* a regression was added, and ci_exit_code is still 0.
C26_Witness ==
    /\ finalized
    /\ last_op = "add_circuit"
    /\ ReportHasMetric({"ExceededThreshold"})
    /\ report.summary.regressions > 0
    /\ report.summary.ci_exit_code = 0

\* A fresh report that was never finalized holds a regression and has exit
\* code 0.
C26_WitnessFresh ==
    /\ ~finalized
    /\ ReportHasMetric({"ExceededThreshold"})
    /\ report.summary.ci_exit_code = 0

\* ------------------------------------------------------------- backend files

\* The last prove call has returned Ok(output).
ProveReturnedOk ==
    /\ bk_pc \in {"idle", "verified"}
    /\ prove_out # None
    /\ prove_out[1].ok

\* C27: once prove has returned, the proof_path and vk_path of its
\* ProveOutput are paths of files that exist, and when the paths are passed
\* to verify both files are present.
C27_ReturnedPathsExist ==
    /\ ProveReturnedOk =>
           /\ prove_out[1].value.proof_path # None =>
                  exists(disk, prove_out[1].value.proof_path[1])
           /\ prove_out[1].value.vk_path # None =>
                  exists(disk, prove_out[1].value.vk_path[1])
    /\ verify_in # None => verify_in[1].present

\* Every path a ProveOutput carries is in the output directory of its own
\* call, and that directory is gone once the call has returned: verify
\* never finds the files.
C27_ReturnedPathsAreGone ==
    /\ ProveReturnedOk => \A f \in disk : f.dir # bk_proves
    /\ verify_in # None => ~verify_in[1].present /\ ~verify_in[1].success

\* ------------------------------------------------------------- runner: poll order

\* A step in which the runner returns from a poll.
ReturnsFromPoll == rpc = "poll" /\ rpc' = "done"

\* C28: at every poll the exit check comes before the timeout check: a
\* child found exited is reported with Ok and its exit status whatever the
\* elapsed time (unless try_wait itself failed); a child is killed only in a
\* poll that found it still running; the runner returns exactly one of exit
\* status, timeout error and spawn/wait error, and a child is never both
\* killed and reported with an exit status.
C28_ExitCheckBeforeTimeout ==
    /\ [](/\ rpc = "done" <=> rret.kind \in {"Ok", "Timeout", "SpawnError", "WaitError"}
          /\ rret.kind = "Ok" <=> child.state = "reaped"
          /\ rret.kind = "Timeout" <=> child.state = "killed")
    /\ [][/\ (ReturnsFromPoll /\ child.state = "exited") =>
                 \/ rret' = [kind |-> "Ok", code |-> child.code, elapsed_ms |-> elapsed_ms]
                 \/ rret'.kind = "WaitError"
          /\ child'.state = "killed" =>
                 /\ ReturnsFromPoll
                 /\ child.state = "running"
                 /\ timed_out(timeout_ms, elapsed_ms)
          /\ rpc = "done" => rret' = rret]_vars

\* C28 witness: the child exited while the runner slept past a deadline of
\* one second; the next poll returned Ok with its exit code.
C28_Witness ==
    /\ rpc = "done"
    /\ rret.kind = "Ok"
    /\ rret.code = 1
    /\ timeout_ms = 1000
    /\ rret.elapsed_ms >= timeout_ms
    /\ child.state = "reaped"

\* ------------------------------------------------------------- comparator: record matching

\* The positions of the baseline records that have the circuit name of
\* target record k.
BaselinePositions(k) ==
    LET baseline_records == cmp_in[1].baseline_file[1][1]
        target_records == cmp_in[1].target_file[1][1]
    IN  {j \in 1..Len(baseline_records) :
            baseline_records[j].circuit_name = target_records[k].circuit_name}

\* The largest element of a nonempty set of positions.
LastOf(S) == CHOOSE j \in S : \A m \in S : m <= j

\* C29: compare_jsonl_files gives exactly one circuit entry per target
\* record, in target-file order and with the record's circuit name (so a
\* duplicated target name gives duplicated entries, and a circuit only in the
\* baseline gives none); a target record whose name the baseline has is
\* compared against the last baseline record of that name in file order,
\* one whose name it lacks against no baseline values.
C29_OneEntryPerTargetRecord ==
    JsonlCompared =>
        LET baseline_records == cmp_in[1].baseline_file[1][1]
            target_records == cmp_in[1].target_file[1][1]
            threshold == cmp_in[1].threshold
            result == cmp_out[1].result
        IN  /\ result.ok
            /\ Len(result.value.circuits) = Len(target_records)
            /\ \A k \in 1..Len(target_records) :
                   LET entry == result.value.circuits[k]
                       target_json == to_value(target_records[k])
                   IN  /\ entry.circuit_name = target_records[k].circuit_name
                       /\ entry.metrics =
                              IF BaselinePositions(k) = {}
                              THEN compare_values(JNull, target_json, threshold)
                              ELSE compare_values(
                                       to_value(baseline_records[LastOf(BaselinePositions(k))]),
                                       target_json, threshold)

\* C29 witness: the baseline has two records named "a" with means 100 and
\* 130, the target two records named "a" with mean 130; the result has two
\* entries named "a", both compared against 130.
C29_Witness ==
    /\ JsonlCompared
    /\ Len(cmp_in[1].baseline_file[1][1]) = 2
    /\ Len(cmp_in[1].target_file[1][1]) = 2
    /\ \A k \in 1..2 :
           /\ cmp_in[1].baseline_file[1][1][k].circuit_name = "a"
           /\ cmp_in[1].target_file[1][1][k].circuit_name = "a"
           /\ cmp_in[1].target_file[1][1][k].prove_stats = Some([mean_ms |-> 130])
    /\ cmp_in[1].baseline_file[1][1][1].prove_stats = Some([mean_ms |-> 100])
    /\ cmp_in[1].baseline_file[1][1][2].prove_stats = Some([mean_ms |-> 130])
    /\ Len(cmp_out[1].result.value.circuits) = 2
    /\ \A k \in 1..2 :
           /\ cmp_out[1].result.value.circuits[k].circuit_name = "a"
           /\ Len(cmp_out[1].result.value.circuits[k].metrics) = 1
           /\ cmp_out[1].result.value.circuits[k].metrics[1].baseline = 130
           /\ cmp_out[1].result.value.circuits[k].metrics[1].status = "Unchanged"

\* ------------------------------------------------------------- comparator: report agreement

\* C30: the RegressionReport built from a CompareResult agrees with it: the
\* same number of regressions and of improvements, as many circuits, no
\* errors, and the same ci_exit_code.
C30_ReportAgreesWithResult ==
    (cmp_out # None /\ cmp_out[1].result.ok) =>
        LET r == cmp_out[1].result.value
            summary == cmp_out[1].report[1].summary
        IN  /\ summary.regressions = r.total_regressions
            /\ summary.improvements = r.total_improvements
            /\ summary.total_circuits = Len(r.circuits)
            /\ Len(cmp_out[1].report[1].circuits) = Len(r.circuits)
            /\ summary.errors = 0
            /\ summary.ci_exit_code = r.ci_exit_code

\* C30 witness: a result of two circuits with one regression and one
\* improvement, exit code 1, and its report with the same numbers.
C30_Witness ==
    /\ cmp_out # None
    /\ cmp_out[1].result.ok
    /\ Len(cmp_out[1].result.value.circuits) = 2
    /\ cmp_out[1].result.value.total_regressions = 1
    /\ cmp_out[1].result.value.total_improvements = 1
    /\ cmp_out[1].result.value.ci_exit_code = 1
    /\ cmp_out[1].report[1].summary.regressions = 1
    /\ cmp_out[1].report[1].summary.improvements = 1
    /\ cmp_out[1].report[1].summary.ci_exit_code = 1

====
